---------------------------- MODULE Spec2Model ----------------------------
(***************************************************************************)
(* Pointa: recording-session and timeline-correlation engine.              *)
(*                                                                         *)
(* Part I   The debugger attachment of one tab, shared by the viewport     *)
(*          override (setViewport / resetViewport) and the CDP recording   *)
(*          (startCDPRecording / stopCDPRecording) of the background       *)
(*          script.  Every async function is cut at its awaits.            *)
(* Part II  The timeline correlator of the bug recorder (generateTimeline, *)
(*          dedupeEvents, analyzeKeyIssues) as operators over event lists. *)
(* Part III The network adapter of the CDP listener.                       *)
(* Part IV  The preload backend log client (preload.cjs).                  *)
(* Part V   The SDK logger (PointaServerLogger).                           *)
(* Part VI  One recording session of the bug recorder: startRecording and  *)
(*          stopRecording cut at their awaits, with a wall clock.          *)
(***************************************************************************)
EXTENDS Integers, Sequences, FiniteSets, TLC

VARIABLES
    viewportOverrides,  \* the tab has an entry in this.viewportOverrides
    cdpRecordings,      \* the tab has an entry in this.cdpRecordings
    dbgAttached,        \* chrome: this extension's debugger is attached to the tab
    pc,                 \* per call slot: the await the call is suspended at
    outcome,            \* per call slot: how the last call of the slot settled
    recordingData,      \* BugRecorder.recordingData: the raw event buffers
    rawInput,           \* the raw event buffers as they were when recording stopped
    phase,              \* where the correlator stands: raw, timeline1, done1, ...
    timeline,           \* result of the last generateTimeline, or NoTimeline
    keyIssues,          \* result of the last analyzeKeyIssues
    firstOutput,        \* <<timeline, keyIssues>> of the first correlator run
    pendingRequests,    \* recording.pendingRequests: request id -> url, method
    cdpEvents,          \* recording.events: the events the CDP listener appended
    requestStage,       \* how far the browser is with each request
    observedMethod,     \* the method Network.requestWillBeSent gave for each request
    logClient,          \* which backend log client the process runs: preload or sdk
    ws,                 \* preload: the socket's readyState, or "null"
    isRecording,        \* preload: isRecording
    captureStdout,      \* preload: captureStdout
    stdoutHooked,       \* preload: stdoutHooked
    messageQueue,       \* preload: messageQueue
    reconnectAttempts,  \* preload: reconnectAttempts
    reconnectTimer,     \* preload: a setTimeout(connect, ...) is pending
    timeoutDelay,       \* preload: the delay given to the last setTimeout, in ms
    consecutiveCloses,  \* socket closures since the last open (or the start)
    wire,               \* what was passed to send() of the current socket, in order
    calls,              \* how many console calls, writes and errors the process made
    delivered,          \* per log message: how often it was passed to send()
    printed,            \* per call: whether it was a console call of the application,
                        \* and what the original console method was invoked with
    logger,             \* sdk: the fields of the PointaServerLogger object
    loggerSocket,       \* sdk: readyState of the socket the logger created last
    consoleIntercepted, \* sdk: console.log etc. are the logger's interceptors
    errorHandlers,      \* sdk: how often the logger's process error listeners are registered
    now,                \* the wall clock, in ms: what Date.now() returns
    bugRecorder,        \* the BugRecorder object and where its async calls stand
    cdpSession,         \* background: the cdpRecordings entry of the recorder's tab
    startReturn,        \* how startRecording settled for its caller
    stopReturn,         \* what stopRecording returned, but for timeline and keyIssues
    injectionLocks,     \* background: this.injectionLocks, a set of tab ids
    pointaDefined,      \* the tabs in whose page window.pointa is defined
    injCalls            \* the calls of ensureContentScriptsInjected and where they stand

dbgVars  == <<viewportOverrides, cdpRecordings, dbgAttached, pc, outcome>>
corrVars == <<recordingData, rawInput, phase, timeline, keyIssues, firstOutput>>
netVars  == <<pendingRequests, cdpEvents, requestStage, observedMethod>>
preloadFlags  == <<isRecording, captureStdout, stdoutHooked>>
preloadSocket == <<ws, reconnectAttempts, reconnectTimer, timeoutDelay, consecutiveCloses>>
preloadVars   == <<preloadFlags, preloadSocket, messageQueue>>
sdkVars  == <<logger, loggerSocket, consoleIntercepted, errorHandlers>>
logVars  == <<logClient, preloadVars, wire, calls, delivered, printed, sdkVars>>
sessVars == <<now, bugRecorder, cdpSession, startReturn, stopReturn>>
injVars  == <<injectionLocks, pointaDefined, injCalls>>
vars     == <<dbgVars, corrVars, netVars, logVars, sessVars, injVars>>

\* What the actions of one part leave alone.
exceptDbgVars  == <<corrVars, netVars, logVars, sessVars, injVars>>
exceptCorrVars == <<dbgVars, netVars, logVars, sessVars, injVars>>
exceptNetVars  == <<dbgVars, corrVars, logVars, sessVars, injVars>>
exceptLogVars  == <<dbgVars, corrVars, netVars, sessVars, injVars>>
exceptSessVars == <<dbgVars, corrVars, netVars, logVars, injVars>>
exceptInjVars  == <<dbgVars, corrVars, netVars, logVars, sessVars>>

(***************************************************************************)
(* Part I: the debugger attachment                                         *)
(***************************************************************************)

\* Concurrent calls of the four async functions that can be in flight at once.
MaxCalls == 2
Calls == 1..MaxCalls

\* A slot whose call has not settled yet.
NoOutcome == <<"none", "none">>

NoTimeline == [events |-> <<>>, summary |-> [none |-> TRUE]]

EmptyRecordingData ==
    [console |-> <<>>, network |-> <<>>, interactions |-> <<>>, backendLogs |-> <<>>]

\* The bug recorder before any recording.
CorrIdle ==
    /\ recordingData = EmptyRecordingData
    /\ rawInput = EmptyRecordingData
    /\ phase = "idle"
    /\ timeline = NoTimeline
    /\ keyIssues = <<>>
    /\ firstOutput = <<>>

\* The requests the browser makes during a recording.
RequestIds == {"r1", "r2"}

\* A recording as startCDPRecording creates it: no events, no pending requests.
NetIdle ==
    /\ pendingRequests = <<>>
    /\ cdpEvents = <<>>
    /\ requestStage = [id \in RequestIds |-> "unsent"]
    /\ observedMethod = [id \in RequestIds |-> <<"<none>">>]

\* The log messages a process produces while it is observed.
MaxMessages == 2
MessageIds == 1..MaxMessages

\* A console override that does not call the original method.
CallOriginal_Never(p, id) == p

\* originalConsole[level](...args): the original method is invoked with the
\* arguments of the call.
CallOriginal(p, id) == [p EXCEPT ![id].original = Append(@, id)]

\* The module-level state of the preload client before connect().
PreloadLoaded ==
    /\ ws = "null"
    /\ isRecording = FALSE
    /\ captureStdout = FALSE
    /\ stdoutHooked = FALSE
    /\ messageQueue = <<>>
    /\ reconnectAttempts = 0
    /\ reconnectTimer = FALSE
    /\ timeoutDelay = 0
    /\ consecutiveCloses = 0

\* Nothing sent, nothing produced.
NothingSent ==
    /\ wire = <<>>
    /\ calls = 0
    /\ delivered = [id \in MessageIds |-> 0]
    /\ printed = [id \in MessageIds |-> [console |-> FALSE, original |-> <<>>]]

\* The PointaServerLogger object after its constructor.
LoggerConstructed ==
    /\ logger = [ws |-> FALSE, isConnected |-> FALSE, isRecording |-> FALSE,
                 reconnectAttempts |-> 0, reconnectTimer |-> FALSE, buffer |-> <<>>,
                 disconnected |-> FALSE, attemptsMade |-> 0, refusedOnly |-> TRUE]
    /\ loggerSocket = "none"
    /\ consoleIntercepted = FALSE
    /\ errorHandlers = 0

\* No backend log client in the picture.
LogIdle ==
    /\ logClient = "none"
    /\ PreloadLoaded
    /\ LoggerConstructed
    /\ NothingSent

\* stopRecording has not returned.
NoResult == [returned |-> FALSE]

\* No cdpRecordings entry for the tab.
NoCdpSession == [active |-> FALSE, startTime |-> 0, events |-> <<>>]

\* The tabs, and the calls of ensureContentScriptsInjected the model follows.
MaxInjCalls == 3
Tabs == {1, 2}
InjCallIds == 1..MaxInjCalls

\* No call of ensureContentScriptsInjected was made: the constructor's empty
\* injectionLocks, pages without the content scripts.
InjIdle ==
    /\ injectionLocks = {}
    /\ pointaDefined = {}
    /\ injCalls = [c \in InjCallIds |-> [pc |-> "idle", tab |-> 0, result |-> "none",
                                         file |-> 0, holds |-> FALSE]]

\* The BugRecorder object as the script defines it.  Bookkeeping: failed holds
\* the steps of this session that failed; twinInteractions is the interactions
\* buffer of a second session that sees the same events at the same times but
\* for the text typed into password and email fields, and typed the two texts
\* of the last input event.
SessIdle ==
    /\ now = 0
    /\ bugRecorder = [pc |-> "idle", isRecording |-> FALSE, startTime |-> 0,
                      includeBackendLogs |-> FALSE,
                      recordingData |-> EmptyRecordingData, failed |-> {},
                      twinInteractions |-> <<>>, typed |-> <<>>]
    /\ cdpSession = NoCdpSession
    /\ startReturn = "none"
    /\ stopReturn = NoResult

\* The state after the PointaBackground constructor: empty maps, nothing in flight.
DbgInit ==
    /\ viewportOverrides = FALSE
    /\ cdpRecordings = FALSE
    /\ dbgAttached = FALSE
    /\ pc = [c \in Calls |-> "idle"]
    /\ outcome = [c \in Calls |-> NoOutcome]

Init == DbgInit /\ CorrIdle /\ NetIdle /\ LogIdle /\ SessIdle /\ InjIdle

\* A call settles: the slot is free again and keeps how the call ended.
Settle(c, fn, how) ==
    /\ pc' = [pc EXCEPT ![c] = "idle"]
    /\ outcome' = [outcome EXCEPT ![c] = <<fn, how>>]

\* The call moves on to its next await.
Await(c, at) ==
    /\ pc' = [pc EXCEPT ![c] = at]
    /\ outcome' = [outcome EXCEPT ![c] = NoOutcome]

\* setViewport up to its first await: attach unless the marker is present,
\* otherwise go straight to Emulation.setDeviceMetricsOverride.
setViewport(c) ==
    /\ pc[c] = "idle"
    /\ UNCHANGED exceptDbgVars
    /\ Await(c, IF ~viewportOverrides THEN "sv_attach" ELSE "sv_cmd")
    /\ UNCHANGED <<viewportOverrides, cdpRecordings, dbgAttached>>

\* chrome.debugger.attach of setViewport settles.  chrome rejects an attach to
\* a tab its debugger is already attached to; any attach may fail (tab gone).
setViewportAttachDone(c) ==
    /\ pc[c] = "sv_attach"
    /\ UNCHANGED exceptDbgVars
    /\ \/ /\ ~dbgAttached
          /\ dbgAttached' = TRUE
          /\ Await(c, "sv_cmd")
       \/ /\ Settle(c, "setViewport", "attach_error")
          /\ UNCHANGED dbgAttached
    /\ UNCHANGED <<viewportOverrides, cdpRecordings>>

\* Emulation.setDeviceMetricsOverride settles: the marker is set on success.
setViewportCommandDone(c) ==
    /\ pc[c] = "sv_cmd"
    /\ UNCHANGED exceptDbgVars
    /\ \/ /\ dbgAttached
          /\ viewportOverrides' = TRUE
          /\ Settle(c, "setViewport", "resolved")
       \/ /\ Settle(c, "setViewport", "command_error")
          /\ UNCHANGED viewportOverrides
    /\ UNCHANGED <<cdpRecordings, dbgAttached>>

\* resetViewport up to its first await: Emulation.clearDeviceMetricsOverride.
resetViewport(c) ==
    /\ pc[c] = "idle"
    /\ UNCHANGED exceptDbgVars
    /\ Await(c, "rv_cmd")
    /\ UNCHANGED <<viewportOverrides, cdpRecordings, dbgAttached>>

\* clearDeviceMetricsOverride settles: on success detach is called, on failure
\* the catch swallows the error and the marker stays.
resetViewportCommandDone(c) ==
    /\ pc[c] = "rv_cmd"
    /\ UNCHANGED exceptDbgVars
    /\ \/ /\ dbgAttached
          /\ Await(c, "rv_detach")
       \/ Settle(c, "resetViewport", "resolved")
    /\ UNCHANGED <<viewportOverrides, cdpRecordings, dbgAttached>>

\* chrome.debugger.detach of resetViewport settles: the marker is deleted only
\* after a successful detach.
resetViewportDetachDone(c) ==
    /\ pc[c] = "rv_detach"
    /\ UNCHANGED exceptDbgVars
    /\ \/ /\ dbgAttached
          /\ dbgAttached' = FALSE
          /\ viewportOverrides' = FALSE
       \/ /\ ~dbgAttached
          /\ UNCHANGED <<dbgAttached, viewportOverrides>>
    /\ Settle(c, "resetViewport", "resolved")
    /\ UNCHANGED cdpRecordings

\* startCDPRecording up to its first await.
startCDPRecording(c) ==
    /\ pc[c] = "idle"
    /\ UNCHANGED exceptDbgVars
    /\ IF cdpRecordings
         THEN /\ Settle(c, "startCDPRecording", "resolved")
              /\ UNCHANGED cdpRecordings
         ELSE /\ cdpRecordings' = TRUE
              /\ Await(c, IF ~viewportOverrides THEN "sc_attach" ELSE "sc_net")
    /\ UNCHANGED <<viewportOverrides, dbgAttached>>

\* A catch that rethrows without deleting the entry.
startCDPRecordingCatch_KeepsEntry(c, error) ==
    /\ UNCHANGED cdpRecordings
    /\ Settle(c, "startCDPRecording", error)

\* The catch of startCDPRecording: delete the entry, rethrow.
startCDPRecordingCatch(c, error) ==
    /\ cdpRecordings' = FALSE
    /\ Settle(c, "startCDPRecording", error)

\* chrome.debugger.attach of startCDPRecording settles.
startCDPAttachDone(c) ==
    /\ pc[c] = "sc_attach"
    /\ UNCHANGED exceptDbgVars
    /\ \/ /\ ~dbgAttached
          /\ dbgAttached' = TRUE
          /\ Await(c, "sc_net")
          /\ UNCHANGED cdpRecordings
       \/ /\ startCDPRecordingCatch(c, "attach_error")
          /\ UNCHANGED dbgAttached
    /\ UNCHANGED viewportOverrides

NextEnable(at) ==
    CASE at = "sc_net" -> "sc_log"
      [] at = "sc_log" -> "sc_runtime"
      [] OTHER -> "idle"

\* Network.enable, Log.enable or Runtime.enable settles.
startCDPEnableDone(c) ==
    /\ pc[c] \in {"sc_net", "sc_log", "sc_runtime"}
    /\ UNCHANGED exceptDbgVars
    /\ \/ /\ dbgAttached
          /\ IF pc[c] = "sc_runtime"
               THEN Settle(c, "startCDPRecording", "resolved")
               ELSE Await(c, NextEnable(pc[c]))
          /\ UNCHANGED cdpRecordings
       \/ startCDPRecordingCatch(c, "command_error")
    /\ UNCHANGED <<viewportOverrides, dbgAttached>>

\* stopCDPRecording up to its first await.
stopCDPRecording(c) ==
    /\ pc[c] = "idle"
    /\ UNCHANGED exceptDbgVars
    /\ IF ~cdpRecordings
         THEN Settle(c, "stopCDPRecording", "resolved")
         ELSE Await(c, "st_net")
    /\ UNCHANGED <<viewportOverrides, cdpRecordings, dbgAttached>>

\* stopCDPRecording after its domains are disabled (or disabling threw):
\* detach unless the viewport marker is present, else clean up and return.
stopCDPAfterDisable(c) ==
    IF ~viewportOverrides
      THEN /\ Await(c, "st_detach")
           /\ UNCHANGED cdpRecordings
      ELSE /\ cdpRecordings' = FALSE
           /\ Settle(c, "stopCDPRecording", "resolved")

\* Network.disable, Log.disable or Runtime.disable settles; a failure leaves
\* the inner try block.
stopCDPDisableDone(c) ==
    /\ pc[c] \in {"st_net", "st_log", "st_runtime"}
    /\ UNCHANGED exceptDbgVars
    /\ \/ /\ dbgAttached
          /\ IF pc[c] = "st_runtime"
               THEN stopCDPAfterDisable(c)
               ELSE /\ Await(c, IF pc[c] = "st_net" THEN "st_log" ELSE "st_runtime")
                    /\ UNCHANGED cdpRecordings
       \/ stopCDPAfterDisable(c)
    /\ UNCHANGED <<viewportOverrides, dbgAttached>>

\* chrome.debugger.detach of stopCDPRecording settles; its error is swallowed.
stopCDPDetachDone(c) ==
    /\ pc[c] = "st_detach"
    /\ UNCHANGED exceptDbgVars
    /\ dbgAttached' = FALSE
    /\ cdpRecordings' = FALSE
    /\ Settle(c, "stopCDPRecording", "resolved")
    /\ UNCHANGED viewportOverrides

\* chrome.debugger.onDetach: the tab is closed or the user cancels debugging.
\* The listener logs and leaves the recording to stopCDPRecording.
onDetach ==
    /\ dbgAttached
    /\ dbgAttached' = FALSE
    /\ UNCHANGED <<viewportOverrides, cdpRecordings, pc, outcome>>
    /\ UNCHANGED exceptDbgVars

DbgNext ==
    \/ \E c \in Calls :
         \/ setViewport(c)
         \/ setViewportAttachDone(c)
         \/ setViewportCommandDone(c)
         \/ resetViewport(c)
         \/ resetViewportCommandDone(c)
         \/ resetViewportDetachDone(c)
         \/ startCDPRecording(c)
         \/ startCDPAttachDone(c)
         \/ startCDPEnableDone(c)
         \/ stopCDPRecording(c)
         \/ stopCDPDisableDone(c)
         \/ stopCDPDetachDone(c)
    \/ onDetach

Spec == Init /\ [][DbgNext]_vars

(***************************************************************************)
(* Part I: properties                                                      *)
(***************************************************************************)

AttachAwaits == {"sv_attach", "sc_attach"}
DetachAwaits == {"rv_detach", "st_detach"}

\* Call c invokes chrome.debugger.attach / chrome.debugger.detach in this step.
InvokesAttach(c) == pc[c] \notin AttachAwaits /\ pc'[c] \in AttachAwaits
InvokesDetach(c) == pc[c] \notin DetachAwaits /\ pc'[c] \in DetachAwaits

\* C1: while the tab has both a viewport override and a CDP recording, no
\* release (resetViewport or stopCDPRecording) calls chrome.debugger.detach.
C1_NoDetachWhileShared ==
    [][\A c \in Calls :
         InvokesDetach(c) => ~(viewportOverrides /\ cdpRecordings)]_vars

\* C2: chrome.debugger.attach is never invoked while the debugger is already
\* attached to the tab or while another call's attach is still in flight.
C2_NoDoubleAttach ==
    [][\A c \in Calls :
         InvokesAttach(c) =>
            /\ ~dbgAttached
            /\ \A d \in Calls \ {c} : pc[d] \notin AttachAwaits]_vars

\* The attach awaited by call c fails in this step (the call settles there).
AttachFails(c) == pc[c] \in AttachAwaits /\ pc'[c] = "idle"

C4_DetachTearsDownSession ==
    [][(onDetach /\ cdpRecordings) =>
          (~cdpRecordings' /\ ~viewportOverrides')]_vars


(***************************************************************************)
(* Part II: the timeline correlator                                        *)
(*                                                                         *)
(* A JavaScript string is a sequence of one-character strings (a URL: a    *)
(* sequence of its segments); the value undefined is Undefined.            *)
(***************************************************************************)

Undefined == <<"<undefined>">>

IsString(v) == v # Undefined

\* `v || ''`
OrEmpty(v) == IF v = Undefined THEN <<>> ELSE v

\* String.prototype.includes / startsWith
Includes(s, pat) ==
    \E i \in 1..(Len(s) - Len(pat) + 1) : SubSeq(s, i, i + Len(pat) - 1) = pat

StartsWith(s, pat) == Len(s) >= Len(pat) /\ SubSeq(s, 1, Len(pat)) = pat

Min(a, b) == IF a < b THEN a ELSE b

Space == {" ", "\t", "\n", "\r"}
Digit == {"0", "1", "2", "3", "4", "5", "6", "7", "8", "9"}
LowerCase == {"a", "b", "c", "d", "e", "f", "g", "h", "i", "j", "k", "l", "m",
              "n", "o", "p", "q", "r", "s", "t", "u", "v", "w", "x", "y", "z"}
UpperCase == {"A", "B", "C", "D", "E", "F", "G", "H", "I", "J", "K", "L", "M",
              "N", "O", "P", "Q", "R", "S", "T", "U", "V", "W", "X", "Y", "Z"}
HexDigit == Digit \cup {"a", "b", "c", "d", "e", "f", "A", "B", "C", "D", "E", "F"}
WordChar == Digit \cup LowerCase \cup UpperCase \cup {"_"}

ToLower ==
    ("A" :> "a") @@ ("B" :> "b") @@ ("C" :> "c") @@ ("D" :> "d") @@ ("E" :> "e") @@
    ("F" :> "f") @@ ("G" :> "g") @@ ("H" :> "h") @@ ("I" :> "i") @@ ("J" :> "j") @@
    ("K" :> "k") @@ ("L" :> "l") @@ ("M" :> "m") @@ ("N" :> "n") @@ ("O" :> "o") @@
    ("P" :> "p") @@ ("Q" :> "q") @@ ("R" :> "r") @@ ("S" :> "s") @@ ("T" :> "t") @@
    ("U" :> "u") @@ ("V" :> "v") @@ ("W" :> "w") @@ ("X" :> "x") @@ ("Y" :> "y") @@
    ("Z" :> "z")

Lower(ch) == IF ch \in UpperCase THEN ToLower[ch] ELSE ch

\* The regular-expression pieces stripConsoleStyling is made of.
\* s matches the literal lit at position i (ci: ignoring case, the i flag).
MatchLiteral(s, i, lit, ci) ==
    /\ i + Len(lit) - 1 <= Len(s)
    /\ \A k \in 1..Len(lit) :
         IF ci THEN Lower(s[i + k - 1]) = lit[k] ELSE s[i + k - 1] = lit[k]

SetMin(S) == CHOOSE x \in S : \A y \in S : x <= y

\* Length of the longest run of characters of class from position i (greedy + or *).
RunLen(s, i, class) ==
    IF i > Len(s) THEN 0
    ELSE SetMin({j \in i..(Len(s) + 1) : j > Len(s) \/ s[j] \notin class}) - i

\* Length of the longest run from position i of characters other than stop ([^;]+).
RunLenUntil(s, i, stop) ==
    IF i > Len(s) THEN 0
    ELSE SetMin({j \in i..(Len(s) + 1) : j > Len(s) \/ s[j] = stop}) - i

\* An optional character (;?).
Opt(s, i, ch) == IF i <= Len(s) /\ s[i] = ch THEN 1 ELSE 0

PercentC    == <<"%", "c">>
ColorLit    == <<"c", "o", "l", "o", "r", ":">>
WeightLit   == <<"f", "o", "n", "t", "-", "w", "e", "i", "g", "h", "t", ":">>
SizeLit     == <<"f", "o", "n", "t", "-", "s", "i", "z", "e", ":">>
FamilyLit   == <<"f", "o", "n", "t", "-", "f", "a", "m", "i", "l", "y", ":">>
BackgroundLit == <<"b", "a", "c", "k", "g", "r", "o", "u", "n", "d", ":">>

\* Length of the match of pattern kind at position i of s, 0 when there is none.
MatchLen(kind, s, i) ==
    CASE kind = "%c" ->
           IF MatchLiteral(s, i, PercentC, FALSE) THEN Len(PercentC) ELSE 0
      [] kind = "color" ->
           LET at  == i + Len(ColorLit) + RunLen(s, i + Len(ColorLit), Space)
               hex == Min(RunLen(s, at + 1, HexDigit), 6)
           IN  IF /\ MatchLiteral(s, i, ColorLit, TRUE)
                  /\ MatchLiteral(s, at, <<"#">>, FALSE)
                  /\ hex >= 3
                 THEN (at - i) + 1 + hex + Opt(s, at + 1 + hex, ";")
                 ELSE 0
      [] kind = "font-weight" ->
           LET at == i + Len(WeightLit) + RunLen(s, i + Len(WeightLit), Space)
               w  == RunLen(s, at, WordChar)
           IN  IF MatchLiteral(s, i, WeightLit, TRUE) /\ w >= 1
                 THEN (at - i) + w + Opt(s, at + w, ";")
                 ELSE 0
      [] kind = "font-size" ->
           LET at == i + Len(SizeLit) + RunLen(s, i + Len(SizeLit), Space)
               d  == RunLen(s, at, Digit \cup {"."})
           IN  IF /\ MatchLiteral(s, i, SizeLit, TRUE)
                  /\ d >= 1
                  /\ MatchLiteral(s, at + d, <<"p", "x">>, TRUE)
                 THEN (at - i) + d + 2 + Opt(s, at + d + 2, ";")
                 ELSE 0
      [] kind = "font-family" ->
           LET n == RunLenUntil(s, i + Len(FamilyLit), ";")
           IN  IF MatchLiteral(s, i, FamilyLit, TRUE) /\ n >= 1
                 THEN Len(FamilyLit) + n + Opt(s, i + Len(FamilyLit) + n, ";")
                 ELSE 0
      [] kind = "background" ->
           LET n == RunLenUntil(s, i + Len(BackgroundLit), ";")
           IN  IF MatchLiteral(s, i, BackgroundLit, TRUE) /\ n >= 1
                 THEN Len(BackgroundLit) + n + Opt(s, i + Len(BackgroundLit) + n, ";")
                 ELSE 0
      [] kind = "spaces" ->
           LET n == RunLen(s, i, Space) IN IF n >= 2 THEN n ELSE 0

\* String.prototype.replace with a global pattern: every match, left to right,
\* is replaced by rep; the text between two matches is kept.
RECURSIVE ReplaceFrom(_, _, _, _)
ReplaceFrom(kind, s, i, rep) ==
    LET hits == {j \in i..Len(s) : MatchLen(kind, s, j) > 0}
    IN  IF hits = {} THEN SubSeq(s, i, Len(s))
        ELSE LET j == SetMin(hits)
             IN  SubSeq(s, i, j - 1) \o rep
                    \o ReplaceFrom(kind, s, j + MatchLen(kind, s, j), rep)

ReplaceAll(kind, s, rep) == ReplaceFrom(kind, s, 1, rep)

\* String.prototype.trim
Trim(s) ==
    LET keep == {i \in 1..Len(s) : s[i] \notin Space}
    IN  IF keep = {} THEN <<>>
        ELSE SubSeq(s, SetMin(keep), CHOOSE i \in keep : \A j \in keep : i >= j)

\* BugRecorder.stripConsoleStyling
stripConsoleStyling(message) ==
    IF ~IsString(message) \/ message = <<>> THEN message
    ELSE LET cleaned ==
               Trim(ReplaceAll("spaces",
                    ReplaceAll("background",
                    ReplaceAll("font-family",
                    ReplaceAll("font-size",
                    ReplaceAll("font-weight",
                    ReplaceAll("color",
                    ReplaceAll("%c", message, <<>>),
                       <<>>), <<>>), <<>>), <<>>), <<>>), <<" ">>))
         IN  IF cleaned = <<>> THEN message ELSE cleaned

\* The cap generateTimeline and optimizeConsoleEvent pass to truncateMessage.
MessageCap == 300

\* BugRecorder.truncateMessage
truncateMessage(message, maxLength) ==
    IF ~IsString(message) \/ message = <<>> THEN message
    ELSE IF Len(message) <= maxLength THEN message
    ELSE SubSeq(message, 1, maxLength) \o <<".", ".", ".">>

(***************************************************************************)
(* Events.  An event is a record with the fields of the source's event     *)
(* objects; a field an event does not carry is Undefined.  Two fields are  *)
(* bookkeeping: id is the event's place in the raw buffers (buffer name,   *)
(* index), and shared tells whether the record is the very object held by  *)
(* the raw buffer (TRUE) or a copy made by the pipeline (FALSE).           *)
(***************************************************************************)

NoData ==
    [message |-> Undefined, source |-> Undefined, url |-> Undefined,
     method |-> Undefined, status |-> Undefined, key |-> Undefined,
     stackTrace |-> Undefined, stack |-> Undefined, capturedBy |-> Undefined]

\* A filter that lets every console event through.
shouldFilterConsoleEvent_Nothing(event) == FALSE

\* BugRecorder.shouldFilterConsoleEvent
shouldFilterConsoleEvent(event) ==
    LET source  == OrEmpty(event.data.source)
        message == OrEmpty(event.data.message)
    IN  \/ StartsWith(source, <<"chrome-extension://">>)
        \/ Includes(message, <<"[", "c", "o", "d", "e", "-", "i", "n", "s", "p", "e",
                               "c", "t", "o", "r", "-", "p", "l", "u", "g", "i", "n", "]">>)
        \/ Includes(message, <<"[", "H", "M", "R", "]">>) /\ event.type = "console-log"

\* A filter that knows the health checks only.
shouldFilterNetworkEvent_HealthOnly(event) ==
    LET url == OrEmpty(event.data.url)
    IN  \/ Includes(url, <<"127.0.0.1:4242", "/health">>)
        \/ Includes(url, <<"localhost:4242", "/health">>)

\* BugRecorder.shouldFilterNetworkEvent
shouldFilterNetworkEvent(event) ==
    LET url    == OrEmpty(event.data.url)
        method == OrEmpty(event.data.method)
    IN  \/ Includes(url, <<"127.0.0.1:4242", "/health">>)
        \/ Includes(url, <<"localhost:4242", "/health">>)
        \/ method = <<"OPTIONS">>
        \/ Includes(url, <<"127.0.0.1:4242", "/api/backend">>)

\* An optimizeConsoleEvent that leaves every stackTrace in place.
optimizeConsoleEvent_KeepsStackTrace(event) ==
    [event EXCEPT
       !.shared = FALSE,
       !.data.message = truncateMessage(stripConsoleStyling(event.data.message), MessageCap)]

\* BugRecorder.optimizeConsoleEvent: a new object with the message stripped and
\* truncated and the stackTrace of a console-log removed.
optimizeConsoleEvent(event) ==
    [event EXCEPT
       !.shared = FALSE,
       !.data.message = truncateMessage(stripConsoleStyling(event.data.message), MessageCap),
       !.data.stackTrace = IF event.type = "console-log" THEN Undefined
                           ELSE event.data.stackTrace]

\* The window of dedupeEvents, in milliseconds.
DedupeWindow == 100

Abs(n) == IF n < 0 THEN -n ELSE n

\* `${value}` in a template literal
ToText(v) == IF v = Undefined THEN <<"u", "n", "d", "e", "f", "i", "n", "e", "d">> ELSE v

\* The decimal digits of a natural number, as characters.
RECURSIVE DigitsOf(_)
DigitsOf(n) == IF n < 10 THEN <<ToString(n)>> ELSE DigitsOf(n \div 10) \o <<ToString(n % 10)>>

\* ` (×N)`
RepeatSuffix(n) == <<" ", "(", "×">> \o DigitsOf(n) \o <<")">>

\* A comparison that ignores how far apart the two events are.
IsSameMessage_AnyDistance(lastEvent, event) ==
    /\ lastEvent.type = event.type
    /\ lastEvent.data.message = event.data.message

\* isSameMessage of dedupeEvents: same type, same message, less than the window
\* away from lastEvent.
IsSameMessage(lastEvent, event) ==
    /\ lastEvent.type = event.type
    /\ lastEvent.data.message = event.data.message
    /\ Abs(event.relativeTime - lastEvent.relativeTime) < DedupeWindow

\* `lastEvent = event`: the entry is the event object itself.
ShallowCopy_SameObject(event) == event

\* `{ ...event }`: the entry dedupeEvents works on is a copy of the event.
ShallowCopy(event) == [event EXCEPT !.shared = FALSE]

\* A run closed without its annotation.
FlushRun_NoAnnotation(lastEvent, repeatCount) == lastEvent

\* A run closed with the number of repeats instead of the number of events.
FlushRun_CountsRepeats(lastEvent, repeatCount) ==
    IF repeatCount > 0
      THEN [lastEvent EXCEPT
              !.data.message = ToText(lastEvent.data.message) \o RepeatSuffix(repeatCount)]
      ELSE lastEvent

\* dedupeEvents closes a run: the ×N annotation is written when the run repeats.
FlushRun(lastEvent, repeatCount) ==
    IF repeatCount > 0
      THEN [lastEvent EXCEPT
              !.data.message = ToText(lastEvent.data.message) \o RepeatSuffix(repeatCount + 1)]
      ELSE lastEvent

\* The loop of dedupeEvents from event i on.  lastEvent is <<>> for null; folded
\* lists the ids of the raw events the current run stands for.
RECURSIVE DedupeFrom(_, _, _, _, _)
DedupeFrom(events, i, deduped, lastEvent, repeatCount) ==
    IF i > Len(events)
      THEN IF lastEvent # <<>>
             THEN Append(deduped, FlushRun(lastEvent, repeatCount))
             ELSE deduped
      ELSE LET event == events[i]
           IN  IF lastEvent # <<>> /\ IsSameMessage(lastEvent, event)
                 THEN DedupeFrom(events, i + 1, deduped,
                                 [lastEvent EXCEPT !.folded = Append(@, event.id)],
                                 repeatCount + 1)
                 ELSE DedupeFrom(events, i + 1,
                                 IF lastEvent # <<>>
                                   THEN Append(deduped, FlushRun(lastEvent, repeatCount))
                                   ELSE deduped,
                                 [folded |-> <<event.id>>] @@ ShallowCopy(event),
                                 0)

\* BugRecorder.dedupeEvents
dedupeEvents(events) ==
    IF Len(events) = 0 THEN events ELSE DedupeFrom(events, 1, <<>>, <<>>, 0)

\* The events left in the order they were combined.
SortByRelativeTime_Unsorted(events) == events

\* Array.prototype.sort((a, b) => a.relativeTime - b.relativeTime): stable.
SortByRelativeTime(events) ==
    LET n == Len(events)
        rank(i) == Cardinality({j \in 1..n :
                      \/ events[j].relativeTime < events[i].relativeTime
                      \/ events[j].relativeTime = events[i].relativeTime /\ j < i}) + 1
    IN  [k \in 1..n |-> events[CHOOSE i \in 1..n : rank(i) = k]]

\* Array.prototype.map
MapSeq(seq, Op(_)) == [i \in 1..Len(seq) |-> Op(seq[i])]

\* Array.prototype.filter(...).length
CountIf(seq, Test(_)) == Cardinality({i \in 1..Len(seq) : Test(seq[i])})

\* generateTimeline's copy of a backend log with its message truncated.
TruncateBackendLog(e) ==
    [e EXCEPT !.shared = FALSE,
              !.data.message = truncateMessage(e.data.message, MessageCap)]

\* generateTimeline: the console events kept by the filter, optimized.
FilteredConsole(rd) ==
    LET keep(e) == ~shouldFilterConsoleEvent(e)
    IN  MapSeq(SelectSeq(rd.console, keep), optimizeConsoleEvent)

\* generateTimeline: the network events kept by the filter.
FilteredNetwork(rd) ==
    LET keep(e) == ~shouldFilterNetworkEvent(e)
    IN  SelectSeq(rd.network, keep)

\* generateTimeline: the backend logs with their messages truncated.
BackendLogs(rd) == MapSeq(rd.backendLogs, TruncateBackendLog)

\* generateTimeline: all events combined and sorted, before deduplication.
SortedEvents(rd) ==
    SortByRelativeTime(FilteredConsole(rd) \o FilteredNetwork(rd)
                          \o rd.interactions \o BackendLogs(rd))

\* BugRecorder.generateTimeline
generateTimeline(rd) ==
    LET allEvents       == dedupeEvents(SortedEvents(rd))
        isFailed(e)     == e.subtype = "failed"
        isError(e)      == e.type = "console-error"
        isWarning(e)    == e.type = "console-warning"
        isLog(e)        == e.type = "console-log"
        isBackendError(e) == e.type = "backend-error"
    IN  [events  |-> allEvents,
         summary |-> [totalEvents      |-> Len(allEvents),
                      userInteractions |-> Len(rd.interactions),
                      networkRequests  |-> Len(FilteredNetwork(rd)),
                      networkFailures  |-> CountIf(FilteredNetwork(rd), isFailed),
                      consoleErrors    |-> CountIf(FilteredConsole(rd), isError),
                      backendLogs      |-> Len(BackendLogs(rd)),
                      backendErrors    |-> CountIf(BackendLogs(rd), isBackendError),
                      consoleWarnings  |-> CountIf(FilteredConsole(rd), isWarning),
                      consoleLogs      |-> CountIf(FilteredConsole(rd), isLog)]]

\* What the raw buffers hold after generateTimeline ran: a ×N annotation written
\* to an entry that is the raw buffer's own object shows in the buffer.
RawAfter(rd, events) ==
    LET written(name, i) ==
            {k \in 1..Len(events) :
                /\ events[k].shared
                /\ events[k].id = <<name, i>>
                /\ events[k].data.message # rd[name][i].data.message}
        after(name) ==
            [i \in 1..Len(rd[name]) |->
                IF written(name, i) = {} THEN rd[name][i]
                ELSE [rd[name][i] EXCEPT
                        !.data.message =
                            events[CHOOSE k \in written(name, i) : TRUE].data.message]]
    IN  [console |-> after("console"), network |-> after("network"),
         interactions |-> after("interactions"), backendLogs |-> after("backendLogs")]

\* One key issue of analyzeKeyIssues; isRootCause FALSE stands for the absent field.
KeyIssue(type, description, e) ==
    [type |-> type, description |-> description, relativeTime |-> e.relativeTime,
     severity |-> "error",
     source |-> IF type = "backend-error" THEN <<"backend">>
                ELSE IF type = "console-error" THEN e.data.source ELSE Undefined,
     url |-> IF type = "network-failure" THEN e.data.url ELSE Undefined,
     status |-> IF type = "network-failure" THEN e.data.status ELSE Undefined,
     stack |-> IF type = "backend-error" THEN e.data.stack ELSE Undefined,
     isRootCause |-> FALSE]

\* `${method} ${url} failed with status ${status || 'unknown'}`
FailureDescription(e) ==
    ToText(e.data.method) \o <<" ">> \o ToText(e.data.url)
        \o <<" failed with status ">>
        \o (IF e.data.status = Undefined \/ e.data.status = DigitsOf(0)
              THEN <<"unknown">> ELSE e.data.status)

\* Every key issue flagged.
MarkRootCause_All(issues) ==
    [k \in 1..Len(issues) |-> [issues[k] EXCEPT !.isRootCause = TRUE]]

\* keyIssues[0].isRootCause = true
MarkRootCause(issues) ==
    [k \in 1..Len(issues) |-> IF k = 1 THEN [issues[k] EXCEPT !.isRootCause = TRUE]
                                       ELSE issues[k]]

\* BugRecorder.analyzeKeyIssues
analyzeKeyIssues(tl) ==
    LET events == tl.events
        isConsoleError(e) ==
            /\ e.type = "console-error"
            /\ ~StartsWith(OrEmpty(e.data.source), <<"chrome-extension://">>)
        isNetworkFailure(e) == e.type = "network" /\ e.subtype = "failed"
        isBackendError(e) == e.type = "backend-error"
        consoleIssue(e) == KeyIssue("console-error", e.data.message, e)
        networkIssue(e) == KeyIssue("network-failure", FailureDescription(e), e)
        backendIssue(e) == KeyIssue("backend-error", e.data.message, e)
        found == MapSeq(SelectSeq(events, isConsoleError), consoleIssue)
                   \o MapSeq(SelectSeq(events, isNetworkFailure), networkIssue)
                   \o MapSeq(SelectSeq(events, isBackendError), backendIssue)
    IN  IF Len(found) > 0 THEN MarkRootCause(SortByRelativeTime(found)) ELSE found

(***************************************************************************)
(* The raw events a recording can hold.                                    *)
(***************************************************************************)

\* The most events one recording holds, over all four buffers.
MaxEvents == 3

\* Relative times (ms): under, at and over the deduplication window.
Times == {0, 99, 100, 198}

MsgErr      == <<"E", "r", "r">>
MsgOk       == <<"o", "k">>
MsgStyledOk == <<"%", "c", "o", "k">>
MsgHMR      == <<"[", "H", "M", "R", "]", " ", "u", "p">>
MsgLong     ==
    LET x10  == <<"x", "x", "x", "x", "x", "x", "x", "x", "x", "x">>
        x100 == x10 \o x10 \o x10 \o x10 \o x10 \o x10 \o x10 \o x10 \o x10 \o x10
    IN  SubSeq(x100 \o x100 \o x100 \o x100, 1, MessageCap + 1)

PageSource == <<"http://", "localhost:3000", "/app.js">>
ExtSource  == <<"chrome-extension://", "pointa", "/content/", "bug-recorder.js">>
SomeStack  == <<"at f (app.js:1:1)">>

\* The Pointa server as the extension addresses it.
apiServerUrl == <<"http://", "127.0.0.1:4242">>

\* The requests the extension itself makes to the Pointa server: the health
\* check and the backend-log control API.
ControlEndpoints ==
    {apiServerUrl \o <<"/health">>,
     apiServerUrl \o <<"/api/backend", "-logs/status">>,
     apiServerUrl \o <<"/api/backend", "-logs/start">>,
     apiServerUrl \o <<"/api/backend", "-logs/stop">>}

UrlApi          == <<"http://", "localhost:3000", "/api/data">>
UrlHealth       == apiServerUrl \o <<"/health">>
UrlHealthLocal  == <<"http://", "localhost:4242", "/health">>
UrlBackendApi   == apiServerUrl \o <<"/api/backend", "-logs/start">>

NoId == <<"none", 0>>

\* The event Runtime.consoleAPICalled / Log.entryAdded / Runtime.exceptionThrown
\* appends (background.js), as merged into recordingData.console by stopRecording.
CdpConsoleEvent(level, t, message, source, stackTrace) ==
    [id |-> NoId, shared |-> TRUE,
     type |-> IF level = "error" THEN "console-error"
              ELSE IF level = "warning" THEN "console-warning" ELSE "console-log",
     subtype |-> Undefined,
     severity |-> IF level = "error" THEN "error"
                  ELSE IF level = "warning" THEN "warning" ELSE "info",
     relativeTime |-> t,
     data |-> [NoData EXCEPT !.message = message, !.source = source,
                             !.stackTrace = stackTrace]]

\* The event the window error handler adds (captureWindowErrors).
WindowErrorEvent(t, message, source) ==
    [id |-> NoId, shared |-> TRUE, type |-> "console-error", subtype |-> Undefined,
     severity |-> "error", relativeTime |-> t,
     data |-> [NoData EXCEPT !.message = message, !.source = source,
                             !.stack = SomeStack,
                             !.capturedBy = <<"window-error-handler">>]]

\* The event Network.responseReceived appends (background.js); the status is
\* kept as its decimal text.
NetworkEvent(t, url, method, status) ==
    LET isSuccess == status >= 200 /\ status < 400
    IN  [id |-> NoId, shared |-> TRUE, type |-> "network",
         subtype |-> IF isSuccess THEN "success" ELSE "failed",
         severity |-> IF isSuccess THEN "info" ELSE "error",
         relativeTime |-> t,
         data |-> [NoData EXCEPT !.url = url, !.method = method,
                                 !.status = DigitsOf(status)]]

\* The event Network.loadingFailed appends (background.js): no status.
LoadingFailedEvent(t, url, method) ==
    [id |-> NoId, shared |-> TRUE, type |-> "network", subtype |-> "failed",
     severity |-> "error", relativeTime |-> t,
     data |-> [NoData EXCEPT !.url = url, !.method = method]]

\* The event the keypress handler adds (captureInteractions).
KeypressEvent(t, key) ==
    [id |-> NoId, shared |-> TRUE, type |-> "user-interaction", subtype |-> "keypress",
     severity |-> "info", relativeTime |-> t,
     data |-> [NoData EXCEPT !.key = key]]

\* The event stopRecording makes of a backend log.
BackendLogEvent(level, t, message, stack) ==
    [id |-> NoId, shared |-> TRUE,
     type |-> "backend-" \o level, subtype |-> Undefined,
     severity |-> IF level = "error" THEN "error"
                  ELSE IF level = "warn" THEN "warning" ELSE "info",
     relativeTime |-> t,
     data |-> [NoData EXCEPT !.message = message, !.stack = stack]]

ConsolePool ==
    {CdpConsoleEvent("error", t, MsgErr, Undefined, SomeStack) : t \in Times}
    \cup {WindowErrorEvent(100, MsgErr, PageSource),
          CdpConsoleEvent("error", 0, MsgErr, ExtSource, Undefined),
          CdpConsoleEvent("warning", 99, MsgErr, Undefined, SomeStack),
          CdpConsoleEvent("log", 99, MsgStyledOk, Undefined, SomeStack),
          CdpConsoleEvent("log", 100, MsgOk, Undefined, SomeStack),
          CdpConsoleEvent("log", 0, MsgHMR, Undefined, Undefined)}

NetworkPool ==
    {NetworkEvent(0, UrlApi, <<"GET">>, 500),
     LoadingFailedEvent(99, UrlApi, <<"GET">>),
     NetworkEvent(100, UrlApi, <<"GET">>, 200),
     NetworkEvent(0, UrlApi, <<"OPTIONS">>, 204),
     NetworkEvent(99, UrlHealth, <<"GET">>, 200),
     NetworkEvent(100, UrlHealthLocal, <<"GET">>, 200),
     NetworkEvent(198, UrlBackendApi, <<"POST">>, 200)}

InteractionPool ==
    {KeypressEvent(0, <<"Enter">>), KeypressEvent(99, <<"Tab">>)}

BackendPool ==
    {BackendLogEvent("error", 0, MsgErr, SomeStack),
     BackendLogEvent("error", 99, MsgErr, SomeStack),
     BackendLogEvent("log", 100, MsgLong, Undefined)}

\* A buffer is filled in the order its source emits: ascending relative time.
IsAscending(seq) ==
    \A i \in 1..(Len(seq) - 1) : seq[i].relativeTime <= seq[i + 1].relativeTime

\* recordingData.console: the window-error events added during the recording,
\* then the CDP console events merged by stopRecording, each in emission order.
IsConsoleBuffer(seq) ==
    LET isWindow(e) == e.data.capturedBy # Undefined
        isCdp(e)    == e.data.capturedBy = Undefined
    IN  /\ \A i, j \in 1..Len(seq) : (i < j /\ isWindow(seq[j])) => isWindow(seq[i])
        /\ IsAscending(SelectSeq(seq, isWindow))
        /\ IsAscending(SelectSeq(seq, isCdp))

\* The buffer with every event given its place as id.
WithIds(name, seq) == [i \in 1..Len(seq) |-> [seq[i] EXCEPT !.id = <<name, i>>]]

\* The recording of the scenario: an error thrown from the extension's own
\* script at 500 ms, a request answered with status 500 at 800 ms, an error of
\* the page's script at 820 ms.
ScenarioRecording ==
    [console |-> WithIds("console",
                    <<CdpConsoleEvent("error", 500, MsgErr, ExtSource, Undefined),
                      CdpConsoleEvent("error", 820, MsgErr, PageSource, SomeStack)>>),
     network |-> WithIds("network", <<NetworkEvent(800, UrlApi, <<"GET">>, 500)>>),
     interactions |-> <<>>,
     backendLogs |-> <<>>]

\* The recorder when stopRecording has merged all sources, before the timeline
\* is generated: any raw buffers of at most MaxEvents events, or the scenario.
CorrInit ==
    /\ \/ recordingData = ScenarioRecording
       \/ \E lc \in 0..MaxEvents :
          \E ln \in 0..(MaxEvents - lc) :
          \E li \in 0..(MaxEvents - lc - ln) :
          \E lb \in 0..(MaxEvents - lc - ln - li) :
          \E c \in [1..lc -> ConsolePool] :
          \E n \in [1..ln -> NetworkPool] :
          \E u \in [1..li -> InteractionPool] :
          \E b \in [1..lb -> BackendPool] :
             /\ IsConsoleBuffer(c)
             /\ IsAscending(n)
             /\ IsAscending(u)
             /\ IsAscending(b)
             /\ recordingData = [console |-> WithIds("console", c),
                                 network |-> WithIds("network", n),
                                 interactions |-> WithIds("interactions", u),
                                 backendLogs |-> WithIds("backendLogs", b)]
    /\ rawInput = recordingData
    /\ phase = "raw"
    /\ timeline = NoTimeline
    /\ keyIssues = <<>>
    /\ firstOutput = <<>>

\* stopRecording (and a second run of the correlator): generateTimeline.
GenerateTimeline ==
    /\ phase \in {"raw", "done1"}
    /\ timeline' = generateTimeline(recordingData)
    /\ recordingData' = RawAfter(recordingData, timeline'.events)
    /\ phase' = IF phase = "raw" THEN "timeline1" ELSE "timeline2"
    /\ UNCHANGED <<rawInput, keyIssues, firstOutput>>
    /\ UNCHANGED exceptCorrVars

\* stopRecording: analyzeKeyIssues on the timeline just generated.
AnalyzeKeyIssues ==
    /\ phase \in {"timeline1", "timeline2"}
    /\ keyIssues' = analyzeKeyIssues(timeline)
    /\ firstOutput' = IF phase = "timeline1" THEN <<timeline, keyIssues'>> ELSE firstOutput
    /\ phase' = IF phase = "timeline1" THEN "done1" ELSE "done2"
    /\ UNCHANGED <<recordingData, rawInput, timeline>>
    /\ UNCHANGED exceptCorrVars

CorrNext == GenerateTimeline \/ AnalyzeKeyIssues

InitCorr == DbgInit /\ CorrInit /\ NetIdle /\ LogIdle /\ SessIdle /\ InjIdle

SpecCorr == InitCorr /\ [][CorrNext]_vars

(***************************************************************************)
(* Properties of the timeline correlator.                                  *)
(***************************************************************************)

\* The timeline in the state is one generateTimeline returned.
Generated == phase \in {"timeline1", "done1", "timeline2", "done2"}

Buffers == {"console", "network", "interactions", "backendLogs"}

\* The ids of the raw events handed to the correlator, and the events themselves.
RawIds == UNION {{<<name, i>> : i \in 1..Len(rawInput[name])} : name \in Buffers}
Raw(id) == rawInput[id[1]][id[2]]

Range(seq) == {seq[i] : i \in 1..Len(seq)}

EndsWith(s, suffix) ==
    Len(s) >= Len(suffix) /\ SubSeq(s, Len(s) - Len(suffix) + 1, Len(s)) = suffix

\* The timeline entries that stand for the raw event id.
EntriesOf(id) == {k \in 1..Len(timeline.events) : id \in Range(timeline.events[k].folded)}

\* Entry k carries a repeat count of two or more.
HasRepeatSuffix(k) ==
    \E n \in 2..(Len(timeline.events[k].folded) + 1) :
        EndsWith(timeline.events[k].data.message, RepeatSuffix(n))

\* C5 (as stated): any two raw events with identical type and identical message
\* whose relative times are within 100 ms of each other are stood for by exactly
\* one timeline entry, and that entry carries a repeat count (×2 or higher).
C5_AnyTwoWithinWindowCollapse ==
    Generated =>
        \A a, b \in RawIds :
            ( /\ a # b
              /\ Raw(a).type = Raw(b).type
              /\ IsString(Raw(a).data.message)
              /\ Raw(a).data.message = Raw(b).data.message
              /\ Abs(Raw(a).relativeTime - Raw(b).relativeTime) <= DedupeWindow )
            => /\ EntriesOf(a) = EntriesOf(b)
               /\ Cardinality(EntriesOf(a)) = 1
               /\ \A k \in EntriesOf(a) : HasRepeatSuffix(k)

\* C5 (amended): every event kept by the filters belongs to exactly one timeline
\* entry; and two events that are adjacent in the filtered, time-sorted sequence,
\* have identical type and identical normalized message, and of which the later
\* one is less than 100 ms after the event that opened the earlier one's entry,
\* are stood for by that one entry, whose message ends with (×N), N >= 2 being
\* the number of events the entry stands for.
C5_AdjacentRepeatsCollapse ==
    Generated =>
        LET S == SortedEvents(rawInput)
            T == timeline.events
        IN  /\ \A i \in 1..Len(S) : Cardinality(EntriesOf(S[i].id)) = 1
            /\ \A i \in 1..(Len(S) - 1) : \A k \in EntriesOf(S[i].id) :
                 ( /\ S[i].type = S[i + 1].type
                   /\ S[i].data.message = S[i + 1].data.message
                   /\ S[i + 1].relativeTime - T[k].relativeTime < DedupeWindow )
                 => /\ EntriesOf(S[i + 1].id) = {k}
                    /\ Len(T[k].folded) >= 2
                    /\ T[k].data.message =
                         ToText(S[i].data.message) \o RepeatSuffix(Len(T[k].folded))

\* C5 witness: a page error reported twice 99 ms apart, with nothing between,
\* has been merged into one entry.
C5_Witness ==
    /\ phase = "timeline1"
    /\ \E k \in 1..Len(timeline.events) :
          /\ timeline.events[k].type = "console-error"
          /\ Len(timeline.events[k].folded) = 2
          /\ timeline.events[k].data.message = MsgErr \o RepeatSuffix(2)
          /\ \E a, b \in Range(timeline.events[k].folded) :
                Raw(b).relativeTime - Raw(a).relativeTime = DedupeWindow - 1

\* The number of raw events the first k entries stand for.
RECURSIVE Multiplicities(_, _)
Multiplicities(entries, k) ==
    IF k = 0 THEN 0 ELSE Len(entries[k].folded) + Multiplicities(entries, k - 1)

\* C30: in the output of dedupeEvents the N of an entry's ×N annotation is the
\* number of raw events the entry stands for, an entry without annotation
\* stands for exactly one raw event, and the multiplicities of all entries add
\* up to the number of events dedupeEvents was given.
C30_MultiplicitiesAddUp ==
    Generated =>
        LET S == SortedEvents(rawInput)
            T == timeline.events
        IN  /\ \A k \in 1..Len(T) :
                  LET n == Len(T[k].folded)
                  IN  \E i \in 1..Len(S) :
                         /\ S[i].id = T[k].folded[1]
                         /\ n >= 2 => T[k].data.message
                                        = ToText(S[i].data.message) \o RepeatSuffix(n)
                         /\ T[k].data.message = S[i].data.message <=> n = 1
            /\ Multiplicities(T, Len(T)) = Len(S)

\* C30 witness: a timeline of two entries made from three events, one entry
\* annotated ×2 and one without annotation.
C30_Witness ==
    /\ Generated
    /\ Len(SortedEvents(rawInput)) = 3
    /\ Len(timeline.events) = 2
    /\ \E k, l \in 1..Len(timeline.events) :
          /\ Len(timeline.events[k].folded) = 2
          /\ EndsWith(timeline.events[k].data.message, RepeatSuffix(2))
          /\ Len(timeline.events[l].folded) = 1
          /\ ~HasRepeatSuffix(l)

\* The number of timeline entries that satisfy a test.
InTimeline(Test(_)) == Cardinality({k \in 1..Len(timeline.events) : Test(timeline.events[k])})

\* C31: in every timeline returned by generateTimeline each per-category count
\* of the summary equals the number of events of that category in the
\* timeline's events, and totalEvents equals the length of events.
C31_SummaryCountsTimeline ==
    Generated =>
        LET isInteraction(e)  == e.type = "user-interaction"
            isNetwork(e)      == e.type = "network"
            isFailed(e)       == e.type = "network" /\ e.subtype = "failed"
            isError(e)        == e.type = "console-error"
            isWarning(e)      == e.type = "console-warning"
            isLog(e)          == e.type = "console-log"
            isBackend(e)      == e.type \in {"backend-log", "backend-warn", "backend-error"}
            isBackendError(e) == e.type = "backend-error"
            summary           == timeline.summary
        IN  /\ summary.totalEvents = Len(timeline.events)
            /\ summary.userInteractions = InTimeline(isInteraction)
            /\ summary.networkRequests = InTimeline(isNetwork)
            /\ summary.networkFailures = InTimeline(isFailed)
            /\ summary.consoleErrors = InTimeline(isError)
            /\ summary.consoleWarnings = InTimeline(isWarning)
            /\ summary.consoleLogs = InTimeline(isLog)
            /\ summary.backendLogs = InTimeline(isBackend)
            /\ summary.backendErrors = InTimeline(isBackendError)

\* The timeline entry carries a stack trace: data.stackTrace of a console
\* event, data.stack of a backend log.
CarriesStack(e) == e.data.stackTrace # Undefined \/ e.data.stack # Undefined

\* C32 (as stated): no event of the timeline whose severity is not error
\* carries a stack trace.
C32_NoStackBelowError ==
    Generated =>
        \A k \in 1..Len(timeline.events) :
            timeline.events[k].severity # "error" => ~CarriesStack(timeline.events[k])

\* C32 (amended): no console-log event of the timeline carries a stack trace;
\* every other entry carries the stack trace its first raw event was recorded
\* with, whatever its severity.
C32_NoStackOnConsoleLog ==
    Generated =>
        \A k \in 1..Len(timeline.events) :
            LET e   == timeline.events[k]
                raw == Raw(e.folded[1])
            IN  IF e.type = "console-log"
                  THEN ~CarriesStack(e)
                  ELSE /\ e.data.stackTrace = raw.data.stackTrace
                       /\ e.data.stack = raw.data.stack

\* C32 witness: a console-log recorded with a stack trace is in the timeline
\* without it, and a console-warning is in the timeline with its stack trace.
C32_Witness ==
    /\ Generated
    /\ \E k, l \in 1..Len(timeline.events) :
          /\ timeline.events[k].type = "console-log"
          /\ Raw(timeline.events[k].folded[1]).data.stackTrace = SomeStack
          /\ timeline.events[k].data.stackTrace = Undefined
          /\ timeline.events[l].type = "console-warning"
          /\ timeline.events[l].severity = "warning"
          /\ timeline.events[l].data.stackTrace = SomeStack

\* C38: dedupeEvents never collapses events that carry no message: each
\* network event and each user-interaction event remains a timeline entry of
\* its own.
C38_NoMessageNoCollapse ==
    Generated =>
        \A k \in 1..Len(timeline.events) :
            (\E id \in Range(timeline.events[k].folded) : Raw(id).data.message = Undefined)
               => Len(timeline.events[k].folded) = 1

\* C6: any two raw events folded into the same timeline entry are less than
\* 101 ms apart.
C6_FoldedWithinWindow ==
    Generated =>
        \A k \in 1..Len(timeline.events) :
            \A a, b \in Range(timeline.events[k].folded) :
                Abs(Raw(a).relativeTime - Raw(b).relativeTime) < DedupeWindow + 1

\* C6 witness: of three identical events, the two within the window were folded
\* and the one more than 100 ms after them was kept apart.
C6_Witness ==
    /\ phase = "timeline1"
    /\ \E k, l \in 1..Len(timeline.events) :
          /\ k # l
          /\ Len(timeline.events[k].folded) >= 2
          /\ Len(timeline.events[l].folded) = 1
          /\ timeline.events[l].type = timeline.events[k].type
          /\ Raw(timeline.events[l].folded[1]).data.message
                = Raw(timeline.events[k].folded[1]).data.message
          /\ timeline.events[l].relativeTime - timeline.events[k].relativeTime
                > DedupeWindow

\* C7: the events of the timeline generateTimeline returns are in non-decreasing
\* order of relativeTime.
C7_TimelineSorted == Generated => IsAscending(timeline.events)

\* C7 witness: the buffers, put one after the other, were out of order, and the
\* timeline made of them has events at several times.
C7_Witness ==
    /\ phase = "timeline1"
    /\ ~IsAscending(rawInput.console \o rawInput.network
                       \o rawInput.interactions \o rawInput.backendLogs)
    /\ \E i, j \in 1..Len(timeline.events) :
          timeline.events[i].relativeTime < timeline.events[j].relativeTime

\* A request to one of the extension's own control endpoints, or a preflight.
IsControlRequest(e) ==
    \/ e.data.method = <<"OPTIONS">>
    \/ \E endpoint \in ControlEndpoints : StartsWith(OrEmpty(e.data.url), endpoint)

C9_OneEarliestRootCause ==
    phase \in {"done1", "done2"} =>
        LET flagged == {k \in 1..Len(keyIssues) : keyIssues[k].isRootCause}
        IN  IF Len(keyIssues) = 0
              THEN flagged = {}
              ELSE /\ Cardinality(flagged) = 1
                   /\ \A k \in flagged : \A j \in 1..Len(keyIssues) :
                         keyIssues[k].relativeTime <= keyIssues[j].relativeTime

\* C9 witness: a network failure that happened before a console error is the
\* root cause, though the console errors are collected first.
C9_Witness ==
    /\ phase = "done1"
    /\ \E i, j \in 1..Len(keyIssues) :
          /\ keyIssues[i].isRootCause
          /\ keyIssues[i].type = "network-failure"
          /\ keyIssues[j].type = "console-error"
          /\ keyIssues[i].relativeTime < keyIssues[j].relativeTime

\* C10: the correlator leaves the raw buffers as they were, and a second run on
\* them returns the timeline and the key issues of the first run.
C10_SecondRunIdentical ==
    /\ Generated => recordingData = rawInput
    /\ phase = "timeline2" => timeline = firstOutput[1]
    /\ phase = "done2" => <<timeline, keyIssues>> = firstOutput

\* C10 witness: both runs are done on a recording in which events that the
\* timeline takes from the raw buffers as they are (network, interactions) were
\* merged into one annotated entry.
C10_Witness ==
    /\ phase = "done2"
    /\ keyIssues # <<>>
    /\ \E k \in 1..Len(timeline.events) :
          /\ timeline.events[k].type \in {"network", "user-interaction"}
          /\ Len(timeline.events[k].folded) >= 2

\* C11: the scenario recording (extension error at 500 ms, request failed with
\* status 500 at 800 ms, page error at 820 ms) yields a timeline of two entries
\* without the extension's error, and two key issues of which the network
\* failure is the one marked as root cause.
C11_ScenarioRootCause ==
    (rawInput = ScenarioRecording /\ phase = "done1") =>
        /\ Len(timeline.events) = 2
        /\ EntriesOf(<<"console", 1>>) = {}
        /\ timeline.events[1].type = "network"
        /\ timeline.events[1].folded = <<(<<"network", 1>>)>>
        /\ timeline.events[2].type = "console-error"
        /\ timeline.events[2].folded = <<(<<"console", 2>>)>>
        /\ Len(keyIssues) = 2
        /\ \A k \in 1..Len(keyIssues) :
              keyIssues[k].isRootCause <=> keyIssues[k].type = "network-failure"

\* C11 witness: the correlator has run on the scenario recording.
C11_Witness ==
    /\ rawInput = ScenarioRecording
    /\ phase = "done1"
    /\ \E k \in 1..Len(keyIssues) : keyIssues[k].isRootCause

(***************************************************************************)
(* Part III: the network adapter of the CDP event listener                 *)
(*                                                                         *)
(* The listener of chrome.debugger.onEvent appends to the events of the    *)
(* tab's recording.  The browser reports a request with                    *)
(* Network.requestWillBeSent and ends it with Network.responseReceived     *)
(* and/or Network.loadingFailed; a request that began before the recording *)
(* is only seen ending.  The place of an event in recording.events stands  *)
(* for its relativeTime.  requestId on an event is bookkeeping.            *)
(***************************************************************************)

Methods == {<<"GET">>, <<"POST">>}

\* Status codes of a response: one success, one failure.
Statuses == {200, 500}

NotObserved == <<"<none>">>

\* The recording exists and the debugger is attached: startCDPRecording resolved.
RecordingStarted ==
    /\ cdpRecordings = TRUE
    /\ dbgAttached = TRUE
    /\ viewportOverrides \in BOOLEAN
    /\ pc = [c \in Calls |-> "idle"]
    /\ outcome = [c \in Calls |-> NoOutcome]

\* Map.prototype.set
MapSet(map, key, value) ==
    [k \in DOMAIN map \cup {key} |-> IF k = key THEN value ELSE map[k]]

\* `map.get(key)?.field || fallback`
FieldOr(map, key, field, fallback) ==
    IF key \in DOMAIN map THEN map[key][field] ELSE fallback

\* Network.requestWillBeSent: the request is tracked under its id.
RequestWillBeSent(id, url, method) ==
    /\ cdpRecordings
    /\ requestStage[id] = "unsent"
    /\ pendingRequests' = MapSet(pendingRequests, id, [url |-> url, method |-> method])
    /\ requestStage' = [requestStage EXCEPT ![id] = "started"]
    /\ observedMethod' = [observedMethod EXCEPT ![id] = method]
    /\ UNCHANGED cdpEvents
    /\ UNCHANGED exceptNetVars

\* Network.responseReceived: a network event with the tracked method.
ResponseReceived(id, url, status) ==
    /\ cdpRecordings
    /\ requestStage[id] \in {"unsent", "started"}
    /\ cdpEvents' = Append(cdpEvents,
          [requestId |-> id] @@
          NetworkEvent(Len(cdpEvents), url,
                       FieldOr(pendingRequests, id, "method", <<"GET">>), status))
    /\ requestStage' = [requestStage EXCEPT ![id] = "responded"]
    /\ UNCHANGED <<pendingRequests, observedMethod>>
    /\ UNCHANGED exceptNetVars

\* Network.loadingFailed: a failed network event with the tracked url and method.
LoadingFailed(id) ==
    /\ cdpRecordings
    /\ requestStage[id] \in {"unsent", "started", "responded"}
    /\ cdpEvents' = Append(cdpEvents,
          [requestId |-> id] @@
          LoadingFailedEvent(Len(cdpEvents),
                             FieldOr(pendingRequests, id, "url", <<"unknown">>),
                             FieldOr(pendingRequests, id, "method", <<"unknown">>)))
    /\ requestStage' = [requestStage EXCEPT ![id] = "failed"]
    /\ UNCHANGED <<pendingRequests, observedMethod>>
    /\ UNCHANGED exceptNetVars

NetNext ==
    \E id \in RequestIds :
        \/ \E method \in Methods : RequestWillBeSent(id, UrlApi, method)
        \/ \E status \in Statuses : ResponseReceived(id, UrlApi, status)
        \/ LoadingFailed(id)

InitNet == RecordingStarted /\ CorrIdle /\ NetIdle /\ LogIdle /\ SessIdle /\ InjIdle

SpecNet == InitNet /\ [][NetNext]_vars

\* The network events emitted for a request.
EventsFor(id) == {k \in 1..Len(cdpEvents) : cdpEvents[k].requestId = id}

\* C12: once the terminal outcome of a request seen by requestWillBeSent has
\* been processed, exactly one network event with the method recorded at the
\* start has been emitted for it, and pendingRequests no longer holds its id.
C12_TerminalOutcomeSettlesRequest ==
    \A id \in RequestIds :
        (observedMethod[id] # NotObserved /\ requestStage[id] \in {"responded", "failed"})
        => /\ Cardinality(EventsFor(id)) = 1
           /\ \A k \in EventsFor(id) : cdpEvents[k].data.method = observedMethod[id]
           /\ id \notin DOMAIN pendingRequests

(***************************************************************************)
(* Part III, continued: the console branch of the CDP listener             *)
(*                                                                         *)
(* A console event carries, as bookkeeping, the CDP method it came from    *)
(* (origin), the url CDP gave for it (sourceUrl) and the urls of all its   *)
(* call frames (callStack).                                                *)
(***************************************************************************)

\* How many console events the page produces.
MaxConsoleEvents == 2

\* A script of another extension, as React DevTools injects one.
OtherExtSource == <<"chrome-extension://", "react-devtools", "/build/", "installHook.js">>

\* The urls CDP reports for an entry or an exception; Undefined when it has none.
SourceUrls == {Undefined, PageSource, ExtSource, OtherExtSource}

\* The urls of the call frames CDP reports, innermost first.
CallStacks == {<<>>, <<PageSource>>, <<ExtSource>>, <<OtherExtSource, ExtSource, PageSource>>}

\* url && url.includes('chrome-extension://') && (url.includes('/content/') ||
\* url.includes('/background/') || url.includes('/popup/'))
isFromPointaExtension(url) ==
    /\ url # Undefined
    /\ Includes(url, <<"chrome-extension://">>)
    /\ \/ Includes(url, <<"/content/">>)
       \/ Includes(url, <<"/background/">>)
       \/ Includes(url, <<"/popup/">>)

\* recording.events.push of a console event, with its bookkeeping.
PushConsole(origin, sourceUrl, callStack, event) ==
    cdpEvents' = Append(cdpEvents,
                        [requestId |-> "none", origin |-> origin,
                         sourceUrl |-> sourceUrl, callStack |-> callStack] @@ event)

\* Log.entryAdded: filtered by entry.url.
LogEntryAdded(level, url, callStack) ==
    /\ cdpRecordings
    /\ Len(cdpEvents) < MaxConsoleEvents
    /\ IF isFromPointaExtension(url)
         THEN UNCHANGED cdpEvents
         ELSE PushConsole("Log.entryAdded", url, callStack,
                          [CdpConsoleEvent(level, Len(cdpEvents), MsgErr,
                                           <<"javascript">>, Undefined)
                             EXCEPT !.data.url = url])
    /\ UNCHANGED <<pendingRequests, requestStage, observedMethod>>
    /\ UNCHANGED exceptNetVars

\* callFrames.slice(0, 3)
FirstThree(callStack) == SubSeq(callStack, 1, Min(3, Len(callStack)))

\* Runtime.consoleAPICalled: filtered by the urls of all call frames.
ConsoleAPICalled(type, callStack) ==
    /\ cdpRecordings
    /\ Len(cdpEvents) < MaxConsoleEvents
    /\ IF \E k \in 1..Len(callStack) : isFromPointaExtension(callStack[k])
         THEN UNCHANGED cdpEvents
         ELSE PushConsole("Runtime.consoleAPICalled", Undefined, callStack,
                          CdpConsoleEvent(type, Len(cdpEvents), MsgErr, Undefined,
                                          FirstThree(callStack)))
    /\ UNCHANGED <<pendingRequests, requestStage, observedMethod>>
    /\ UNCHANGED exceptNetVars

\* Runtime.exceptionThrown: appended as it comes.
ExceptionThrown(url, callStack) ==
    /\ cdpRecordings
    /\ Len(cdpEvents) < MaxConsoleEvents
    /\ PushConsole("Runtime.exceptionThrown", url, callStack,
                   [CdpConsoleEvent("error", Len(cdpEvents), MsgErr, url, Undefined)
                      EXCEPT !.data.stack = callStack])
    /\ UNCHANGED <<pendingRequests, requestStage, observedMethod>>
    /\ UNCHANGED exceptNetVars

ConsoleNext ==
    \/ \E level \in {"error", "warning", "info"} : \E url \in SourceUrls :
          \E callStack \in CallStacks : LogEntryAdded(level, url, callStack)
    \/ \E type \in {"error", "warning", "log"} : \E callStack \in CallStacks :
          ConsoleAPICalled(type, callStack)
    \/ \E url \in SourceUrls : \E callStack \in CallStacks : ExceptionThrown(url, callStack)

SpecConsole == InitNet /\ [][ConsoleNext]_vars

\* The url lies under the content, background or popup path of an extension.
UnderOwnPath(url) ==
    /\ url # Undefined
    /\ Len(url) >= 3
    /\ url[1] = "chrome-extension://"
    /\ url[3] \in {"/content/", "/background/", "/popup/"}

\* The event comes from the extension's own scripts.
FromOwnScripts(e) ==
    \/ UnderOwnPath(e.sourceUrl)
    \/ \E k \in 1..Len(e.callStack) : UnderOwnPath(e.callStack[k])

\* C25: no console event whose call stack or source url lies under the
\* extension's own content, background or popup path is in the recording's
\* buffer, whichever CDP method it came from.
C25_NoOwnConsoleEvents ==
    \A k \in 1..Len(cdpEvents) : ~FromOwnScripts(cdpEvents[k])

(***************************************************************************)
(* Part IV: the preload backend log client (preload.cjs)                   *)
(*                                                                         *)
(* A message is a record; its id tells log messages apart: the n-th        *)
(* console call, write or error of the process produces message n, and     *)
(* what is not counted (register, pong, the echo of a console call on the  *)
(* hooked stdout, the client's own log lines) has id 0.  ws.send(JSON...)  *)
(* appends the message to wire.  queued on a message is bookkeeping: it    *)
(* tells that the message went through the queue.                          *)
(***************************************************************************)

MAX_RECONNECT_ATTEMPTS == 10

\* The longest wire a server message is still delivered on.
MaxWire == 4

\* POINTA_APP_PORT, as `pointa dev` sets it.
serverPort == "3000"

RegisterMessage ==
    [type |-> "register", level |-> "none", source |-> serverPort, id |-> 0,
     queued |-> FALSE]
PongMessage ==
    [type |-> "pong", level |-> "none", source |-> "none", id |-> 0, queued |-> FALSE]

\* The message object of sendLog.
LogMessage(level, id) ==
    [type |-> "log", level |-> level, source |-> "console", id |-> id, queued |-> FALSE]

\* The message object of sendStdoutLog.
TerminalMessage(stream, id) ==
    [type |-> "log", level |-> IF stream = "stderr" THEN "stderr" ELSE "stdout",
     source |-> "terminal", id |-> id, queued |-> FALSE]

\* What sending and queueing work on.
Channel == [wire |-> wire, queue |-> messageQueue, delivered |-> delivered]

\* ws.send(JSON.stringify(message))
Send(ch, message) ==
    [ch EXCEPT !.wire = Append(@, message),
               !.delivered = IF message.id \in MessageIds
                               THEN [@ EXCEPT ![message.id] = @ + 1] ELSE @]

\* `if (ws && ws.readyState === 1) ws.send(...) else messageQueue.push(message)`
SendOrQueue(ch, open, message) ==
    IF open THEN Send(ch, message)
    ELSE [ch EXCEPT !.queue = Append(@, [message EXCEPT !.queued = TRUE])]

\* A sendLog without the isRecording test.
sendLog_Always(ch, open, recording, level, id) ==
    SendOrQueue(ch, open, LogMessage(level, id))

\* sendLog
sendLog(ch, open, recording, level, id) ==
    IF ~recording THEN ch ELSE SendOrQueue(ch, open, LogMessage(level, id))

\* sendStdoutLog; blank tells that nothing is left of the text after trimming.
sendStdoutLog(ch, open, recording, capture, stream, blank, id) ==
    IF ~recording \/ ~capture THEN ch
    ELSE IF blank THEN ch
    ELSE SendOrQueue(ch, open, TerminalMessage(stream, id))

\* process.stdout.write / process.stderr.write: the hook, when installed.
StreamWrite(ch, open, hooked, recording, capture, stream, blank, id) ==
    IF hooked THEN sendStdoutLog(ch, open, recording, capture, stream, blank, id) ELSE ch

\* originalConsole.log(...): a line on stdout.
originalConsoleLog(ch, open, hooked, recording, capture) ==
    StreamWrite(ch, open, hooked, recording, capture, "stdout", FALSE, 0)

\* A flush that sends the queued messages and leaves them queued.
FlushQueue_KeepsQueue(ch) ==
    [wire |-> ch.wire \o ch.queue,
     queue |-> ch.queue,
     delivered |-> [id \in MessageIds |->
                      ch.delivered[id]
                        + Cardinality({k \in 1..Len(ch.queue) : ch.queue[k].id = id})]]

\* A flush that empties the queue without sending.
FlushQueue_Drops(ch) == [ch EXCEPT !.queue = <<>>]

\* `while (messageQueue.length > 0 && ws.readyState === 1) ws.send(messageQueue.shift())`
RECURSIVE FlushQueue(_)
FlushQueue(ch) ==
    IF Len(ch.queue) > 0
      THEN FlushQueue(Send([ch EXCEPT !.queue = Tail(@)], Head(ch.queue)))
      ELSE ch

Commit(ch) ==
    /\ wire' = ch.wire
    /\ messageQueue' = ch.queue
    /\ delivered' = ch.delivered

\* console.log / console.error (console.warn, info, debug alike): sendLog, then
\* the original method, which writes the line to stdout or stderr.
consoleCall(level) ==
    /\ logClient = "preload"
    /\ calls < MaxMessages
    /\ calls' = calls + 1
    /\ LET open == ws = "open"
           sent == sendLog(Channel, open, isRecording, level, calls + 1)
       IN  Commit(StreamWrite(sent, open, stdoutHooked, isRecording, captureStdout,
                              IF level = "error" THEN "stderr" ELSE "stdout", FALSE, 0))
    /\ printed' = CallOriginal([printed EXCEPT ![calls + 1].console = TRUE], calls + 1)
    /\ UNCHANGED <<logClient, sdkVars, preloadFlags, preloadSocket>>
    /\ UNCHANGED exceptLogVars

\* process.on('uncaughtException') / process.on('unhandledRejection'): sendLog.
processError(kind) ==
    /\ logClient = "preload"
    /\ calls < MaxMessages
    /\ calls' = calls + 1
    /\ Commit(sendLog(Channel, ws = "open", isRecording, "error", calls + 1))
    /\ UNCHANGED <<logClient, printed, sdkVars, preloadFlags, preloadSocket>>
    /\ UNCHANGED exceptLogVars

\* The process writes to process.stdout or process.stderr itself.
stdoutWrite(stream, blank) ==
    /\ logClient = "preload"
    /\ calls < MaxMessages
    /\ calls' = calls + 1
    /\ Commit(StreamWrite(Channel, ws = "open", stdoutHooked, isRecording, captureStdout,
                          stream, blank, calls + 1))
    /\ UNCHANGED <<logClient, printed, sdkVars, preloadFlags, preloadSocket>>
    /\ UNCHANGED exceptLogVars

\* A connect() that never gives up.
connect_NoLimit ==
    /\ logClient = "preload"
    /\ reconnectTimer
    /\ reconnectTimer' = FALSE
    /\ ws' = "connecting"
    /\ wire' = <<>>
    /\ UNCHANGED <<logClient, printed, sdkVars, preloadFlags, messageQueue, reconnectAttempts,
                   timeoutDelay, consecutiveCloses, calls, delivered>>
    /\ UNCHANGED exceptLogVars

\* setTimeout(connect, ...) fires: connect().
connect ==
    /\ logClient = "preload"
    /\ reconnectTimer
    /\ reconnectTimer' = FALSE
    /\ IF reconnectAttempts >= MAX_RECONNECT_ATTEMPTS
         THEN UNCHANGED <<ws, wire>>
         ELSE ws' = "connecting" /\ wire' = <<>>
    /\ UNCHANGED <<logClient, printed, sdkVars, preloadFlags, messageQueue, reconnectAttempts,
                   timeoutDelay, consecutiveCloses, calls, delivered>>
    /\ UNCHANGED exceptLogVars

\* ws.on('open'): the line on stdout, the register message, the flush.
wsOpen ==
    /\ logClient = "preload"
    /\ ws = "connecting"
    /\ ws' = "open"
    /\ reconnectAttempts' = 0
    /\ consecutiveCloses' = 0
    /\ LET logged == originalConsoleLog(Channel, TRUE, stdoutHooked, isRecording,
                                        captureStdout)
       IN  Commit(FlushQueue(Send(logged, RegisterMessage)))
    /\ UNCHANGED <<logClient, printed, sdkVars, preloadFlags, reconnectTimer, timeoutDelay, calls>>
    /\ UNCHANGED exceptLogVars

\* What the server sends; "garbage" is what JSON.parse throws on or an unknown type.
ServerMessages ==
    {[type |-> "start_recording", captureStdout |-> TRUE],
     [type |-> "start_recording", captureStdout |-> FALSE],
     [type |-> "stop_recording", captureStdout |-> FALSE],
     [type |-> "ping", captureStdout |-> FALSE],
     [type |-> "garbage", captureStdout |-> FALSE]}

\* ws.on('message')
wsMessage(msg) ==
    /\ logClient = "preload"
    /\ ws = "open"
    /\ Len(wire) < MaxWire
    /\ LET received == IF msg.type = "garbage" THEN Channel
                       ELSE originalConsoleLog(Channel, TRUE, stdoutHooked, isRecording,
                                               captureStdout)
       IN  CASE msg.type = "start_recording" ->
                  /\ isRecording' = TRUE
                  /\ captureStdout' = msg.captureStdout
                  /\ stdoutHooked' = (stdoutHooked \/ msg.captureStdout)
                  /\ Commit(originalConsoleLog(received, TRUE, stdoutHooked', TRUE,
                                               captureStdout'))
            [] msg.type = "stop_recording" ->
                  /\ isRecording' = FALSE
                  /\ captureStdout' = FALSE
                  /\ stdoutHooked' = FALSE
                  /\ Commit(originalConsoleLog(received, TRUE, FALSE, FALSE, FALSE))
            [] msg.type = "ping" ->
                  /\ Commit(Send(received, PongMessage))
                  /\ UNCHANGED preloadFlags
            [] OTHER ->
                  /\ Commit(received)
                  /\ UNCHANGED preloadFlags
    /\ UNCHANGED <<logClient, printed, sdkVars, preloadSocket, calls>>
    /\ UNCHANGED exceptLogVars

\* A delay that is not capped.
BackoffDelay_Uncapped(attempts) == 1000 * 2^attempts

\* Math.min(1000 * Math.pow(2, reconnectAttempts), 30000)
BackoffDelay(attempts) == Min(1000 * 2^attempts, 30000)

\* ws.on('close'), after a refused connection as well as after an open one.
wsClose ==
    /\ logClient = "preload"
    /\ ws \in {"connecting", "open"}
    /\ ws' = "null"
    /\ reconnectAttempts' = reconnectAttempts + 1
    /\ consecutiveCloses' = consecutiveCloses + 1
    /\ reconnectTimer' = TRUE
    /\ timeoutDelay' = BackoffDelay(reconnectAttempts')
    /\ UNCHANGED <<logClient, printed, sdkVars, preloadFlags, messageQueue, wire, calls, delivered>>
    /\ UNCHANGED exceptLogVars

PreloadNext ==
    \/ \E level \in {"log", "error"} : consoleCall(level)
    \/ \E kind \in {"uncaughtException", "unhandledRejection"} : processError(kind)
    \/ \E stream \in {"stdout", "stderr"} : \E blank \in BOOLEAN : stdoutWrite(stream, blank)
    \/ connect
    \/ wsOpen
    \/ \E msg \in ServerMessages : wsMessage(msg)
    \/ wsClose

\* preload.cjs has been required: connect() has created the first socket.
PreloadInit ==
    /\ logClient = "preload"
    /\ ws = "connecting"
    /\ isRecording = FALSE
    /\ captureStdout = FALSE
    /\ stdoutHooked = FALSE
    /\ messageQueue = <<>>
    /\ reconnectAttempts = 0
    /\ reconnectTimer = FALSE
    /\ timeoutDelay = 0
    /\ consecutiveCloses = 0
    /\ LoggerConstructed
    /\ NothingSent

(***************************************************************************)
(* Part V: the SDK logger (PointaServerLogger)                             *)
(*                                                                         *)
(* loggerSocket is the readyState of the socket the logger created last:   *)
(* connecting, open, closing (close() was called on an open socket),       *)
(* aborting (close() was called on a connecting socket), closed, or none.  *)
(* logger.ws tells whether this.ws holds that socket or null, and          *)
(* logger.reconnectTimer whether a reconnect timer is pending.             *)
(***************************************************************************)

maxReconnectAttempts == 5
maxBufferSize == 100

\* What PointaServerLogger.send works on.
LoggerChannel == [wire |-> wire, queue |-> logger.buffer, delivered |-> delivered]

\* PointaServerLogger.send
LoggerSend(ch, canSend, data) ==
    IF canSend THEN Send(ch, data)
    ELSE IF Len(ch.queue) < maxBufferSize
      THEN [ch EXCEPT !.queue = Append(@, [data EXCEPT !.queued = TRUE])]
      ELSE ch

\* PointaServerLogger.flushBuffer
RECURSIVE LoggerFlushBuffer(_, _)
LoggerFlushBuffer(ch, canSend) ==
    IF Len(ch.queue) > 0 /\ canSend
      THEN LoggerFlushBuffer(LoggerSend([ch EXCEPT !.queue = Tail(@)], canSend,
                                        Head(ch.queue)),
                             canSend)
      ELSE ch

\* PointaServerLogger.normalizeLevel
normalizeLevel(level) ==
    CASE level \in {"debug", "info", "log"} -> "log"
      [] level = "warn" -> "warn"
      [] level = "error" -> "error"
      [] OTHER -> "log"

\* The logEntry of PointaServerLogger.sendLog; stack tells whether a stack was
\* passed.
LogEntry(level, stack, id) ==
    [type |-> "log", level |-> normalizeLevel(level), source |-> "console",
     stack |-> stack, id |-> id, queued |-> FALSE]

\* PointaServerLogger.sendLog
LoggerSendLog(ch, canSend, level, stack, id) ==
    LoggerSend(ch, canSend, LogEntry(level, stack, id))

\* PointaServerLogger.scheduleReconnect: the pending timer is cleared, and a new
\* one is set unless the attempts are used up.
scheduleReconnect(L) ==
    IF L.reconnectAttempts >= maxReconnectAttempts
      THEN [L EXCEPT !.reconnectTimer = FALSE]
      ELSE [L EXCEPT !.reconnectAttempts = @ + 1, !.reconnectTimer = TRUE]

\* this.ws && this.ws.readyState === WebSocket.OPEN
LoggerCanSend == logger.ws /\ loggerSocket = "open"

LoggerCommit(ch, L) ==
    /\ wire' = ch.wire
    /\ delivered' = ch.delivered
    /\ logger' = [L EXCEPT !.buffer = ch.queue]

\* process.on adds a listener each time it is called, also for a function that
\* is registered already; the model follows this many registrations.
MaxListeners == 2

\* The reconnect timer fires: connect().
loggerConnect ==
    /\ logClient = "sdk"
    /\ logger.reconnectTimer
    /\ IF logger.ws /\ loggerSocket \in {"connecting", "open"}
         THEN /\ logger' = [logger EXCEPT !.reconnectTimer = FALSE]
              /\ UNCHANGED <<loggerSocket, wire>>
         ELSE /\ logger' = [logger EXCEPT !.reconnectTimer = FALSE, !.ws = TRUE,
                                          !.attemptsMade = @ + 1]
              /\ loggerSocket' = "connecting"
              /\ wire' = <<>>
    /\ UNCHANGED <<logClient, printed, preloadVars, calls, delivered, consoleIntercepted,
                   errorHandlers>>
    /\ UNCHANGED exceptLogVars

\* ws.on('open'): flushBuffer, interceptConsole, the process error listeners.
loggerOpen ==
    /\ logClient = "sdk"
    /\ loggerSocket = "connecting"
    /\ errorHandlers < MaxListeners
    /\ loggerSocket' = "open"
    /\ LoggerCommit(LoggerFlushBuffer(LoggerChannel, logger.ws),
                    [logger EXCEPT !.isConnected = TRUE, !.reconnectAttempts = 0,
                                   !.attemptsMade = 1, !.refusedOnly = FALSE])
    /\ consoleIntercepted' = TRUE
    /\ errorHandlers' = errorHandlers + 1
    /\ UNCHANGED <<logClient, printed, preloadVars, calls>>
    /\ UNCHANGED exceptLogVars

\* The close handler: not connected, not recording, console restored, reconnect.
LoggerClosed(L) ==
    /\ logger' = scheduleReconnect([L EXCEPT !.isConnected = FALSE, !.isRecording = FALSE])
    /\ loggerSocket' = "closed"
    /\ consoleIntercepted' = FALSE

\* The connection attempt fails: ws.on('error'), which schedules a reconnect
\* when the error is ECONNREFUSED, and then ws.on('close').
loggerConnectFailed(refused) ==
    /\ logClient = "sdk"
    /\ loggerSocket = "connecting"
    /\ LoggerClosed(IF refused THEN scheduleReconnect(logger)
                    ELSE [logger EXCEPT !.refusedOnly = FALSE])
    /\ UNCHANGED <<logClient, printed, preloadVars, wire, calls, delivered, errorHandlers>>
    /\ UNCHANGED exceptLogVars

\* ws.on('close') of a socket that was open, or that disconnect() closed.
loggerClose ==
    /\ logClient = "sdk"
    /\ loggerSocket \in {"open", "closing", "aborting"}
    /\ LoggerClosed(logger)
    /\ UNCHANGED <<logClient, printed, preloadVars, wire, calls, delivered, errorHandlers>>
    /\ UNCHANGED exceptLogVars

\* ws.on('message') -> handleServerMessage; a socket still delivers messages
\* after close() was called on it, until the close handshake is done.
loggerMessage(msg) ==
    /\ logClient = "sdk"
    /\ loggerSocket \in {"open", "closing"}
    /\ Len(wire) + Len(logger.buffer) < MaxWire
    /\ CASE msg.type = "start_recording" ->
              /\ logger' = [logger EXCEPT !.isRecording = TRUE]
              /\ UNCHANGED <<wire, delivered>>
         [] msg.type = "stop_recording" ->
              /\ logger' = [logger EXCEPT !.isRecording = FALSE]
              /\ UNCHANGED <<wire, delivered>>
         [] msg.type = "ping" ->
              LoggerCommit(LoggerSend(LoggerChannel, LoggerCanSend, PongMessage), logger)
         [] OTHER ->
              UNCHANGED <<logger, wire, delivered>>
    /\ UNCHANGED <<logClient, printed, preloadVars, calls, loggerSocket, consoleIntercepted,
                   errorHandlers>>
    /\ UNCHANGED exceptLogVars

\* console[level](...) of the process: the original method itself, or the
\* interceptor when installed, which calls the original first.
loggerConsoleCall(level) ==
    /\ logClient = "sdk"
    /\ calls < MaxMessages
    /\ calls' = calls + 1
    /\ printed' = CallOriginal([printed EXCEPT ![calls + 1].console = TRUE], calls + 1)
    /\ IF consoleIntercepted /\ logger.isRecording /\ logger.isConnected
         THEN LoggerCommit(LoggerSendLog(LoggerChannel, LoggerCanSend, level, FALSE,
                                         calls + 1),
                           logger)
         ELSE UNCHANGED <<logger, wire, delivered>>
    /\ UNCHANGED <<logClient, preloadVars, loggerSocket, consoleIntercepted,
                   errorHandlers>>
    /\ UNCHANGED exceptLogVars

\* How many of the n registered listeners run for one error: every listener of
\* unhandledRejection, while the first listener of uncaughtException throws
\* the error again, which ends the dispatch.
ListenersRun(kind, n) ==
    IF kind = "uncaughtException" THEN Min(n, 1) ELSE n

\* Each listener that runs calls sendLog('error', ..., stack).
RECURSIVE ListenersSendLog(_, _, _, _)
ListenersSendLog(ch, canSend, n, id) ==
    IF n = 0 THEN ch
    ELSE ListenersSendLog(LoggerSendLog(ch, canSend, "error", TRUE, id), canSend, n - 1, id)

\* handleUncaughtException / handleUnhandledRejection, as often as registered.
loggerProcessError(kind) ==
    /\ logClient = "sdk"
    /\ calls < MaxMessages
    /\ calls' = calls + 1
    /\ IF logger.isRecording /\ logger.isConnected
         THEN LoggerCommit(ListenersSendLog(LoggerChannel, LoggerCanSend,
                                            ListenersRun(kind, errorHandlers), calls + 1),
                           logger)
         ELSE UNCHANGED <<logger, wire, delivered>>
    /\ UNCHANGED <<logClient, printed, preloadVars, loggerSocket, consoleIntercepted,
                   errorHandlers>>
    /\ UNCHANGED exceptLogVars

\* PointaServerLogger.disconnect; disconnected is bookkeeping: disconnect() was
\* called.  More bookkeeping in logger: attemptsMade counts the sockets created
\* since the last open, refusedOnly says that every socket so far ended with
\* ECONNREFUSED and a close event.
loggerDisconnect ==
    /\ logClient = "sdk"
    /\ consoleIntercepted' = FALSE
    /\ errorHandlers' = IF errorHandlers > 0 THEN errorHandlers - 1 ELSE 0
    /\ loggerSocket' = IF ~logger.ws THEN loggerSocket
                       ELSE IF loggerSocket = "open" THEN "closing"
                       ELSE IF loggerSocket = "connecting" THEN "aborting"
                       ELSE loggerSocket
    /\ logger' = [logger EXCEPT !.reconnectTimer = FALSE, !.ws = FALSE,
                                !.isConnected = FALSE, !.isRecording = FALSE,
                                !.disconnected = TRUE, !.refusedOnly = FALSE]
    /\ UNCHANGED <<logClient, printed, preloadVars, wire, calls, delivered>>
    /\ UNCHANGED exceptLogVars

SdkNext ==
    \/ loggerConnect
    \/ loggerOpen
    \/ \E refused \in BOOLEAN : loggerConnectFailed(refused)
    \/ loggerClose
    \/ \E msg \in ServerMessages : loggerMessage(msg)
    \/ \E level \in {"log", "error"} : loggerConsoleCall(level)
    \/ \E kind \in {"uncaughtException", "unhandledRejection"} : loggerProcessError(kind)
    \/ loggerDisconnect

\* The package has been imported: initPointaLogger() has called connect().
SdkInit ==
    /\ logClient = "sdk"
    /\ PreloadLoaded
    /\ NothingSent
    /\ logger = [ws |-> TRUE, isConnected |-> FALSE, isRecording |-> FALSE,
                 reconnectAttempts |-> 0, reconnectTimer |-> FALSE, buffer |-> <<>>,
                 disconnected |-> FALSE, attemptsMade |-> 1, refusedOnly |-> TRUE]
    /\ loggerSocket = "connecting"
    /\ consoleIntercepted = FALSE
    /\ errorHandlers = 0

LogNext == PreloadNext \/ SdkNext

\* A buffer of n log messages that were produced while the socket was not
\* open; the oldest is -n, the newest -1.
BufferOf(n) == [k \in 1..n |-> [LogEntry("log", FALSE, k - n - 1) EXCEPT !.queued = TRUE]]

\* The buffer is empty, one short of maxBufferSize, or full.
BufferSizes == {0, maxBufferSize - 1, maxBufferSize}

\* The SDK logger while its socket is closing (the server sent its close
\* frame, readyState is CLOSING, the close event is still to come), recording,
\* with n messages buffered by send().
SdkBuffering ==
    /\ logClient = "sdk"
    /\ PreloadLoaded
    /\ NothingSent
    /\ \E n \in BufferSizes :
          logger = [ws |-> TRUE, isConnected |-> TRUE, isRecording |-> TRUE,
                    reconnectAttempts |-> 0, reconnectTimer |-> FALSE,
                    buffer |-> BufferOf(n), disconnected |-> FALSE,
                    attemptsMade |-> 1, refusedOnly |-> FALSE]
    /\ loggerSocket = "closing"
    /\ consoleIntercepted = TRUE
    /\ errorHandlers = 1

InitBuffer == DbgInit /\ CorrIdle /\ NetIdle /\ SdkBuffering /\ SessIdle /\ InjIdle

SpecBuffer == InitBuffer /\ [][SdkNext]_vars

InitLog == DbgInit /\ CorrIdle /\ NetIdle /\ (PreloadInit \/ SdkInit) /\ SessIdle /\ InjIdle

SpecLog == InitLog /\ [][LogNext]_vars

\* Timers fire, and a socket that is connecting is opened or closed in the end.
SpecLogFair ==
    /\ SpecLog
    /\ WF_vars(connect)
    /\ WF_vars(wsOpen \/ wsClose)

(***************************************************************************)
(* Properties of the log clients.                                          *)
(***************************************************************************)

\* How often the message is in the queue.
InQueue(id) == Cardinality({k \in 1..Len(messageQueue) : messageQueue[k].id = id})

\* C13: in the preload client no log message is passed to send() more than
\* once: a message is either sent or in the queue, never both, and never twice.
C13_NoMessageSentTwice ==
    logClient = "preload"
      => \A id \in MessageIds : delivered[id] + InQueue(id) <= 1

\* C13 witness: a message that was queued while the socket was not open has
\* been sent by the flush of a later open, once.
C13_Witness ==
    /\ logClient = "preload"
    /\ ws = "open"
    /\ \E k \in 1..Len(wire) :
          /\ wire[k].queued
          /\ wire[k].id \in MessageIds
          /\ delivered[wire[k].id] = 1

\* Reconnecting has been given up.
Abandoned ==
    /\ reconnectAttempts >= MAX_RECONNECT_ATTEMPTS
    /\ ws = "null"

\* C14 (as stated): every message queued while the socket is not open is
\* eventually sent.
C14_QueuedEventuallySent ==
    \A id \in MessageIds : (InQueue(id) = 1) ~> (delivered[id] = 1)

\* C14 (amended): a queued message leaves the queue only by being sent, and it
\* is eventually sent unless reconnecting is given up after
\* MAX_RECONNECT_ATTEMPTS consecutive closures.
C14_QueuedSentUnlessAbandoned ==
    /\ \A id \in MessageIds : (InQueue(id) = 1) ~> (delivered[id] = 1 \/ Abandoned)
    /\ [][\A id \in MessageIds :
            InQueue(id) = 1 => (InQueue(id)' = 1 \/ delivered'[id] = 1)]_vars

\* C14 witness: a message produced while recording is still queued after
\* several socket closures.
C14_Witness ==
    /\ logClient = "preload"
    /\ consecutiveCloses >= 2
    /\ \E id \in MessageIds : InQueue(id) = 1

\* C15: after MAX_RECONNECT_ATTEMPTS consecutive closures no socket is created
\* any more; the code's counter is the number of consecutive closures, and an
\* open resets it to zero.
C15_NoSocketAfterMaxCloses ==
    [][ /\ consecutiveCloses >= MAX_RECONNECT_ATTEMPTS
           => (ws' = "null" /\ consecutiveCloses' >= MAX_RECONNECT_ATTEMPTS)
        /\ reconnectAttempts' = consecutiveCloses'
        /\ ws' = "open" => reconnectAttempts' = 0 ]_vars

\* C15 witness: the timer after the last closure has fired and connect() has
\* returned without a socket.
C15_Witness ==
    /\ logClient = "preload"
    /\ consecutiveCloses = MAX_RECONNECT_ATTEMPTS
    /\ ws = "null"
    /\ ~reconnectTimer

\* 1000 ms doubled k times.
RECURSIVE Doubled(_)
Doubled(k) == IF k = 0 THEN 1000 ELSE 2 * Doubled(k - 1)

\* C21: the reconnect delay scheduled after the k-th consecutive socket closure
\* is min(1000 * 2^k, 30000) ms: 1000 ms doubled k times, never more than 30 s.
C21_BackoffDoublesUpTo30s ==
    /\ [][wsClose => /\ reconnectTimer'
                     /\ timeoutDelay' = IF Doubled(consecutiveCloses') < 30000
                                          THEN Doubled(consecutiveCloses') ELSE 30000]_vars
    /\ [](timeoutDelay <= 30000)

\* C21 witness: the fifth consecutive closure has scheduled the capped delay.
C21_Witness ==
    /\ logClient = "preload"
    /\ consecutiveCloses = 5
    /\ reconnectTimer
    /\ timeoutDelay = 30000

\* A cap below the number of messages the process produces.
QueueCap == MaxMessages - 1

\* C16: messageQueue never holds more than a fixed maximum of messages.
C16_QueueCapped == Len(messageQueue) <= QueueCap

\* C17: on every open the register message is the first message sent, the
\* queued messages follow in their order, and the queue is empty while the
\* socket is open.
C17_RegisterThenQueue ==
    /\ [](ws = "open" => messageQueue = <<>>)
    /\ [][wsOpen => (wire' = <<RegisterMessage>> \o messageQueue)]_vars

\* C19: whenever the socket is closed or still connecting, isRecording is false.
C19_RecordingOnlyWhileConnected ==
    ws \in {"null", "connecting"} => ~isRecording

\* The isRecording flag of the client that runs.
Recording == IF logClient = "sdk" THEN logger.isRecording ELSE isRecording

\* The process makes a console call, writes to stdout or stderr, or raises an
\* uncaught exception or an unhandled rejection.
Produced == calls' = calls + 1

\* C18: a console call, stdout/stderr write, uncaught exception or unhandled
\* rejection that happens while the client's isRecording flag is false is
\* neither sent nor buffered, by the preload client and the SDK logger alike.
C18_NothingWhileNotRecording ==
    [][(Produced /\ ~Recording)
         => /\ wire' = wire
            /\ messageQueue' = messageQueue
            /\ logger'.buffer = logger.buffer
            /\ delivered' = delivered]_vars

\* C18 witness: the preload client is connected and not recording, the process
\* has made all its calls, and nothing but the register message was sent.
C18_Witness ==
    /\ logClient = "preload"
    /\ ws = "open"
    /\ ~isRecording
    /\ calls = MaxMessages
    /\ wire = <<RegisterMessage>>
    /\ messageQueue = <<>>
    /\ \A id \in MessageIds : delivered[id] = 0

\* The heartbeat of the server.
Ping == [type |-> "ping", captureStdout |-> FALSE]

\* How many pong messages the socket has been given.
Pongs(sent) == Cardinality({k \in 1..Len(sent) : sent[k].type = "pong"})

\* C20: every ping a log client receives is answered with exactly one pong
\* sent on the same open socket, and changes neither the recording flag nor
\* the message queue.
C20_PingAnsweredByOnePong ==
    [][(wsMessage(Ping) \/ loggerMessage(Ping))
         => /\ Pongs(wire') = Pongs(wire) + 1
            /\ isRecording' = isRecording
            /\ logger'.isRecording = logger.isRecording
            /\ messageQueue' = messageQueue
            /\ logger'.buffer = logger.buffer]_vars

(***************************************************************************)
(* Part VI: one recording session of the bug recorder                      *)
(*                                                                         *)
(* startRecording and stopRecording are cut at their awaits; bugRecorder.pc *)
(* is the await the recorder is suspended at.  The background's handling   *)
(* of a message and the arrival of its response are one step.  Every event *)
(* carries the wall-clock time it was made at in timestamp.  The sidebar   *)
(* calls stopRecording after startRecording has returned.                  *)
(***************************************************************************)

\* How far the wall clock runs, and how many events a source produces.
MaxNow == 2
MaxSourceEvents == 1

\* timestamp: the wall-clock time of the event.
Stamped(e) == [timestamp |-> now] @@ e

\* The wall clock advances.
Tick ==
    /\ now < MaxNow
    /\ now' = now + 1
    /\ UNCHANGED <<bugRecorder, cdpSession, startReturn, stopReturn>>
    /\ UNCHANGED exceptSessVars

\* startRecording, up to the await of the startCDPRecording message.
startRecording(includeBackendLogs) ==
    /\ bugRecorder.pc = "idle"
    /\ ~bugRecorder.isRecording
    /\ bugRecorder' = [bugRecorder EXCEPT !.pc = "startCDP",
                                          !.isRecording = TRUE,
                                          !.startTime = now,
                                          !.includeBackendLogs = includeBackendLogs,
                                          !.recordingData = EmptyRecordingData,
                                          !.twinInteractions = <<>>,
                                          !.typed = <<>>]
    /\ UNCHANGED <<now, cdpSession, startReturn, stopReturn>>
    /\ UNCHANGED exceptSessVars

\* type.startsWith(prefix), over the event types there are.
TypeStartsWith(type, prefix) ==
    CASE prefix = "console" -> type \in {"console-error", "console-warning", "console-log"}
      [] prefix = "user-interaction" -> type = "user-interaction"

\* BugRecorder.addTimelineEvent
addTimelineEvent(br, event) ==
    LET timelineEvent == Stamped([event EXCEPT !.relativeTime = now - br.startTime])
    IN  IF TypeStartsWith(event.type, "console")
          THEN [br EXCEPT !.recordingData.console = Append(@, timelineEvent)]
        ELSE IF event.type = "network"
          THEN [br EXCEPT !.recordingData.network = Append(@, timelineEvent)]
        ELSE IF TypeStartsWith(event.type, "user-interaction")
          THEN [br EXCEPT !.recordingData.interactions = Append(@, timelineEvent)]
        ELSE br

\* The event startRecording and stopRecording pass to addTimelineEvent when the
\* session starts and ends.
RecordingEvent(type) ==
    [id |-> NoId, shared |-> TRUE, type |-> type, subtype |-> Undefined,
     severity |-> "info", relativeTime |-> 0, data |-> NoData]

\* stopRecording after its awaits on the background: the recording-end event,
\* then the screenshot.
ToScreenshot(br) ==
    [addTimelineEvent(br, RecordingEvent("recording-end")) EXCEPT !.pc = "screenshot"]

\* startRecording after its last await: the window error and interaction
\* handlers are installed, the recording-start event is passed to
\* addTimelineEvent and the call returns.
StartReturns(br) ==
    [addTimelineEvent(br, RecordingEvent("recording-start")) EXCEPT !.pc = "recording"]

\* The background runs startCDPRecording and answers; the recorder warns on a
\* failure and goes on.
startCDPResponse(result) ==
    /\ bugRecorder.pc = "startCDP"
    /\ cdpSession' = IF result = "started"
                       THEN [active |-> TRUE, startTime |-> now, events |-> <<>>]
                       ELSE NoCdpSession
    /\ LET br == IF result = "started" THEN bugRecorder
                 ELSE [bugRecorder EXCEPT !.failed = @ \cup {"startCDP"}]
       IN  IF bugRecorder.includeBackendLogs
             THEN /\ bugRecorder' = [br EXCEPT !.pc = "startBackend"]
                  /\ UNCHANGED startReturn
             ELSE /\ bugRecorder' = StartReturns(br)
                  /\ startReturn' = "resolved"
    /\ UNCHANGED <<now, stopReturn>>
    /\ UNCHANGED exceptSessVars

\* The answer to startBackendLogRecording; a failure is a warning.
startBackendResponse(success) ==
    /\ bugRecorder.pc = "startBackend"
    /\ bugRecorder' = StartReturns([bugRecorder EXCEPT
                         !.failed = IF success THEN @ ELSE @ \cup {"startBackend"}])
    /\ startReturn' = "resolved"
    /\ UNCHANGED <<now, cdpSession, stopReturn>>
    /\ UNCHANGED exceptSessVars

\* What the page does that the content script's handlers see.
ContentEvents ==
    {KeypressEvent(0, <<"Enter">>), WindowErrorEvent(0, MsgErr, PageSource)}

\* The second session adds its event at the same time.
WithTwin(br, after, twinEvent) ==
    LET twin == [br EXCEPT !.recordingData.interactions = br.twinInteractions]
    IN  [after EXCEPT !.twinInteractions =
                         addTimelineEvent(twin, twinEvent).recordingData.interactions]

\* A handler of the content script fires: addTimelineEvent.
contentEvent(event) ==
    /\ bugRecorder.pc = "recording"
    /\ Len(bugRecorder.recordingData.console)
         + Len(bugRecorder.recordingData.interactions) < MaxSourceEvents
    /\ bugRecorder' = WithTwin(bugRecorder, addTimelineEvent(bugRecorder, event), event)
    /\ UNCHANGED <<now, cdpSession, startReturn, stopReturn>>
    /\ UNCHANGED exceptSessVars

\* The types of the fields the user types into, and what the user types.
FieldTypes == {"password", "email", "text"}
Texts == {<<"a">>, <<"h", "u", "n", "t", "e", "r", "2">>}

\* An input handler that records what was typed.
InputValue_AsTyped(type, text) == SubSeq(text, 1, Min(20, Len(text)))

\* inputHandler: '[REDACTED]', or target.value?.substring(0, 20) || ''
InputValue(type, text) ==
    IF type # "password" /\ type # "email"
      THEN SubSeq(text, 1, Min(20, Len(text)))
      ELSE <<"[REDACTED]">>

\* The event inputHandler passes to addTimelineEvent.
InputEvent(type, text) ==
    [id |-> NoId, shared |-> TRUE, type |-> "user-interaction", subtype |-> "input",
     severity |-> "info", relativeTime |-> 0,
     data |-> [element |-> [tagName |-> "input", type |-> type],
               value |-> InputValue(type, text)] @@ NoData]

\* The user types into a field: inputHandler.  The second session gets the
\* same text unless the field is a password or email field.
inputEvent(type, text, twinText) ==
    /\ bugRecorder.pc = "recording"
    /\ bugRecorder.isRecording
    /\ type \in {"password", "email"} \/ twinText = text
    /\ Len(bugRecorder.recordingData.console)
         + Len(bugRecorder.recordingData.interactions) < MaxSourceEvents
    /\ bugRecorder' =
         [WithTwin(bugRecorder, addTimelineEvent(bugRecorder, InputEvent(type, text)),
                   InputEvent(type, twinText))
            EXCEPT !.typed = <<text, twinText>>]
    /\ UNCHANGED <<now, cdpSession, startReturn, stopReturn>>
    /\ UNCHANGED exceptSessVars

\* What the CDP listener appends: a failed response, a console error.
CdpEvents(relativeTime) ==
    {NetworkEvent(relativeTime, UrlApi, <<"GET">>, 500),
     CdpConsoleEvent("error", relativeTime, MsgErr, Undefined, SomeStack)}

\* chrome.debugger.onEvent: the listener of the background script.
cdpEvent(k) ==
    /\ cdpSession.active
    /\ Len(cdpSession.events) < MaxSourceEvents
    /\ LET relativeTime == now - cdpSession.startTime
       IN  \E e \in CdpEvents(relativeTime) :
              /\ e.type = k
              /\ cdpSession' = [cdpSession EXCEPT !.events = Append(@, Stamped(e))]
    /\ UNCHANGED <<now, bugRecorder, startReturn, stopReturn>>
    /\ UNCHANGED exceptSessVars

\* stopRecording, up to the await of the stopCDPRecording message.
stopRecording ==
    /\ bugRecorder.pc = "recording"
    /\ bugRecorder.isRecording
    /\ bugRecorder' = [bugRecorder EXCEPT !.pc = "stopCDP", !.isRecording = FALSE]
    /\ UNCHANGED <<now, cdpSession, startReturn, stopReturn>>
    /\ UNCHANGED exceptSessVars

\* events.filter(...) of stopCDPRecording, then the merge of stopRecording.
MergeCDP(rd, events) ==
    [rd EXCEPT
       !.network = @ \o SelectSeq(events, LAMBDA e : e.type = "network"),
       !.console = @ \o SelectSeq(events, LAMBDA e : TypeStartsWith(e.type, "console"))]

\* The background runs stopCDPRecording and answers: the events, or a failure.
stopCDPResponse(success) ==
    /\ bugRecorder.pc = "stopCDP"
    /\ cdpSession' = NoCdpSession
    /\ LET br == [bugRecorder EXCEPT
                     !.recordingData = IF success THEN MergeCDP(@, cdpSession.events) ELSE @,
                     !.failed = IF success THEN @ ELSE @ \cup {"stopCDP"}]
       IN  bugRecorder' = IF bugRecorder.includeBackendLogs
                            THEN [br EXCEPT !.pc = "stopBackend"]
                            ELSE ToScreenshot(br)
    /\ UNCHANGED <<now, startReturn, stopReturn>>
    /\ UNCHANGED exceptSessVars

\* log.relativeTime || 0; the server's relativeTime is <<>> when absent.
OrZero(x) == IF x = <<>> THEN 0 ELSE x[1]

\* The timeline event stopRecording makes of a log of the server.
FromServerLog(log) ==
    [timestamp |-> log.timestamp]
      @@ BackendLogEvent(log.level, OrZero(log.relativeTime), log.message, log.stack)

\* The logs the Pointa server can answer the stop with: none, or one log taken
\* at some time with whatever relativeTime the server gives it.
ServerLogs ==
    {<<>>}
    \cup {<<[level |-> "error", timestamp |-> at, relativeTime |-> r,
             message |-> MsgErr, stack |-> SomeStack]>> :
            at \in 0..MaxNow, r \in {<<>>} \cup {<<t>> : t \in 0..MaxNow}}

\* The answer to stopBackendLogRecording: the logs, or a failure.
stopBackendResponse(success, logs) ==
    /\ bugRecorder.pc = "stopBackend"
    /\ \A i \in 1..Len(logs) : logs[i].timestamp <= now
    /\ bugRecorder' =
         ToScreenshot([bugRecorder EXCEPT
            !.recordingData.backendLogs =
                IF success THEN [i \in 1..Len(logs) |-> FromServerLog(logs[i])] ELSE @,
            !.failed = IF success THEN @ ELSE @ \cup {"stopBackend"}])
    /\ UNCHANGED <<now, cdpSession, startReturn, stopReturn>>
    /\ UNCHANGED exceptSessVars

\* A stopRecording that lets a failed screenshot through to its caller.
StopResult_ScreenshotThrows(rd, captured) ==
    IF captured THEN [returned |-> TRUE, recordingData |-> rd] ELSE NoResult

\* The result of stopRecording without its timeline and keyIssues;
\* captureScreenshot catches its own failure.
StopResult(rd, captured) == [returned |-> TRUE, recordingData |-> rd]

\* captureScreenshot settles; generateTimeline, analyzeKeyIssues, and
\* stopRecording returns.
screenshotResponse(captured) ==
    /\ bugRecorder.pc = "screenshot"
    /\ bugRecorder' = [bugRecorder EXCEPT
                         !.pc = "stopped",
                         !.failed = IF captured THEN @ ELSE @ \cup {"screenshot"}]
    /\ timeline' = generateTimeline(bugRecorder.recordingData)
    /\ keyIssues' = analyzeKeyIssues(timeline')
    /\ stopReturn' = StopResult(bugRecorder.recordingData, captured)
    /\ UNCHANGED <<now, cdpSession, startReturn>>
    /\ UNCHANGED <<recordingData, rawInput, phase, firstOutput>>
    /\ UNCHANGED <<dbgVars, netVars, logVars, injVars>>

SessNext ==
    \/ Tick
    \/ \E includeBackendLogs \in BOOLEAN : startRecording(includeBackendLogs)
    \/ \E result \in {"started", "attachFails", "enableFails"} : startCDPResponse(result)
    \/ \E success \in BOOLEAN : startBackendResponse(success)
    \/ \E event \in ContentEvents : contentEvent(event)
    \/ \E type \in FieldTypes : \E text \in Texts : \E twinText \in Texts :
          inputEvent(type, text, twinText)
    \/ \E k \in {"network", "console-error"} : cdpEvent(k)
    \/ stopRecording
    \/ \E success \in BOOLEAN : stopCDPResponse(success)
    \/ \E success \in BOOLEAN : \E logs \in ServerLogs : stopBackendResponse(success, logs)
    \/ \E captured \in BOOLEAN : screenshotResponse(captured)

InitSess == DbgInit /\ CorrIdle /\ NetIdle /\ LogIdle /\ SessIdle /\ InjIdle

SpecSess == InitSess /\ [][SessNext]_vars

(***************************************************************************)
(* Properties of the recording session.                                    *)
(***************************************************************************)

\* The events of the session: those the recorder holds and those the
\* background still holds for it.
SessionEvents ==
    Range(bugRecorder.recordingData.console)
      \cup Range(bugRecorder.recordingData.network)
      \cup Range(bugRecorder.recordingData.interactions)
      \cup Range(bugRecorder.recordingData.backendLogs)
      \cup Range(cdpSession.events)

\* C22: the relativeTime of every event of a session is the event's wall-clock
\* time minus BugRecorder.startTime.
C22_RelativeToSessionStart ==
    \A e \in SessionEvents : e.relativeTime = e.timestamp - bugRecorder.startTime

\* C23: if attaching the debugger or enabling a domain fails while a session
\* is started, startRecording does not resolve normally and the session does
\* not enter the recording state.
C23_FailedCDPStartSurfaced ==
    "startCDP" \in bugRecorder.failed
       => /\ startReturn # "resolved"
          /\ bugRecorder.pc # "recording"

\* The awaits of stopRecording, in their order.
StopAwaits == {"stopCDP", "stopBackend", "screenshot"}

C27_DisconnectIsFinal ==
    [][(logger.disconnected /\ logClient = "sdk")
         => /\ loggerSocket' = "connecting" => loggerSocket = "connecting"
            /\ consoleIntercepted' => consoleIntercepted
            /\ logger'.reconnectTimer => logger.reconnectTimer]_<<logger, loggerSocket,
                                                                   consoleIntercepted>>

\* C28: on every WebSocket open the SDK logger sends a register message before
\* any log message: on the wire of a connection every log message comes after
\* a register message.
C28_RegisterBeforeLogs ==
    logClient = "sdk"
      => \A i \in 1..Len(wire) :
            wire[i].type = "log" => \E j \in 1..(i - 1) : wire[j].type = "register"

\* C29: the buffer of the SDK logger never holds more than maxBufferSize
\* messages, and when it holds maxBufferSize and another message must be
\* buffered, the new message is kept and the oldest one is evicted.
C29_BufferKeepsNewest ==
    /\ [](Len(logger.buffer) <= maxBufferSize)
    /\ [][(/\ Len(logger.buffer) = maxBufferSize
            /\ consoleIntercepted /\ errorHandlers = 1
            /\ logger.isRecording /\ logger.isConnected
            /\ ~LoggerCanSend
            /\ calls' = calls + 1)
           => /\ Len(logger'.buffer) = maxBufferSize
              /\ logger'.buffer[maxBufferSize].id = calls'
              /\ \A k \in 1..(maxBufferSize - 1) :
                    logger'.buffer[k] = logger.buffer[k + 1]]_<<logger, calls>>

\* The events of the buffers the timeline is built from.
BufferedEvents(rd) ==
    Range(rd.console) \cup Range(rd.network) \cup Range(rd.interactions)
      \cup Range(rd.backendLogs)

\* C33: for every session that is started and then stopped, the recorded data
\* holds a recording-start event and a recording-end event, in the buffers the
\* timeline is built from.
C33_StartAndEndRecorded ==
    bugRecorder.pc = "stopped"
      => /\ \E e \in BufferedEvents(bugRecorder.recordingData) : e.type = "recording-start"
         /\ \E e \in BufferedEvents(bugRecorder.recordingData) : e.type = "recording-end"

C36_AttachedDebuggerHasOwner ==
    ((\A c \in Calls : pc[c] = "idle") /\ dbgAttached)
       => (cdpRecordings \/ viewportOverrides)

\* C37: when resetViewport returns, the viewport override marker of the tab is
\* removed, whether or not clearing the override or detaching failed.
C37_ResetRemovesMarker ==
    [][\A c \in Calls :
         (pc[c] \in {"rv_cmd", "rv_detach"} /\ pc'[c] = "idle")
            => ~viewportOverrides']_dbgVars

\* The SDK logger has given up: scheduleReconnect found the attempts used up
\* and set no timer.
GaveUp ==
    /\ logClient = "sdk"
    /\ loggerSocket = "closed"
    /\ ~logger.reconnectTimer
    /\ logger.reconnectAttempts >= maxReconnectAttempts

\* C39: when every connection attempt of the SDK logger ends with ECONNREFUSED
\* and a close event, the logger has made exactly maxReconnectAttempts
\* reconnection attempts after the initial one when it gives up.
C39_FiveReconnectsThenDisabled ==
    (GaveUp /\ logger.refusedOnly) => logger.attemptsMade = 1 + maxReconnectAttempts

\* C40: after any sequence of opens, closes and reconnects of the SDK logger at
\* most one uncaughtException listener and one unhandledRejection listener of
\* the logger are registered, so that one error produces one log message.
C40_OneErrorListener ==
    logClient = "sdk"
      => /\ errorHandlers <= 1
         /\ \A id \in MessageIds : delivered[id] <= 1

\* C26: an input event on a password or email field carries the fixed
\* placeholder and nothing derived from the typed text: two sessions that
\* differ only in the text typed into such fields record identical
\* interaction events.
C26_TypedSecretsNotRecorded ==
    /\ bugRecorder.twinInteractions = bugRecorder.recordingData.interactions
    /\ \A k \in 1..Len(bugRecorder.recordingData.interactions) :
          LET e == bugRecorder.recordingData.interactions[k]
          IN  (e.subtype = "input" /\ e.data.element.type \in {"password", "email"})
                 => e.data.value = <<"[REDACTED]">>

\* C26 witness: the two sessions typed different texts into a password field
\* and the input event is recorded.
C26_Witness ==
    /\ Len(bugRecorder.typed) = 2
    /\ bugRecorder.typed[1] # bugRecorder.typed[2]
    /\ \E k \in 1..Len(bugRecorder.recordingData.interactions) :
          /\ bugRecorder.recordingData.interactions[k].subtype = "input"
          /\ bugRecorder.recordingData.interactions[k].data.element.type = "password"

(***************************************************************************)
(* Part VII: the injection of the content scripts (background.js)          *)
(***************************************************************************)

\* The script files are injected one after the other; the last one is
\* content/content.js, which defines window.pointa.
MaxScripts == 2

\* The places where a call has settled.
InjSettled == {"skipped", "returned", "threw"}

\* finally: this.injectionLocks.delete(tabId)
ReleaseLock(tab) == injectionLocks' = injectionLocks \ {tab}

\* ensureContentScriptsInjected(tabId) up to its first await: a call that finds
\* the lock returns, any other asks the page whether window.pointa is defined.
ensureContentScriptsInjected(c, tab) ==
    /\ injCalls[c].pc = "idle"
    /\ injCalls' = [injCalls EXCEPT ![c].tab = tab,
                                    ![c].pc = IF tab \in injectionLocks THEN "skipped"
                                              ELSE "check"]
    /\ UNCHANGED <<injectionLocks, pointaDefined>>
    /\ UNCHANGED exceptInjVars

\* The page runs the function of the check, or the tab cannot be accessed.
checkEvaluated(c, accessible) ==
    /\ injCalls[c].pc = "check"
    /\ injCalls' = [injCalls EXCEPT
                      ![c].pc = "checked",
                      ![c].result = IF ~accessible THEN "throws"
                                    ELSE IF injCalls[c].tab \in pointaDefined THEN "defined"
                                    ELSE "undefined"]
    /\ UNCHANGED <<injectionLocks, pointaDefined>>
    /\ UNCHANGED exceptInjVars

\* The call goes on after the check: it throws or returns early, both through
\* finally, or it takes the lock and asks for the CSS.
checkReturns(c) ==
    /\ injCalls[c].pc = "checked"
    /\ CASE injCalls[c].result = "throws" ->
              /\ ReleaseLock(injCalls[c].tab)
              /\ injCalls' = [injCalls EXCEPT ![c].pc = "threw"]
         [] injCalls[c].result = "defined" ->
              /\ ReleaseLock(injCalls[c].tab)
              /\ injCalls' = [injCalls EXCEPT ![c].pc = "returned"]
         [] OTHER ->
              /\ injectionLocks' = injectionLocks \cup {injCalls[c].tab}
              /\ injCalls' = [injCalls EXCEPT ![c].pc = "css", ![c].holds = TRUE]
    /\ UNCHANGED pointaDefined
    /\ UNCHANGED exceptInjVars

\* insertCSS settles: the scripts follow, or the error goes through catch and
\* finally.
insertCSSReturns(c, inserted) ==
    /\ injCalls[c].pc = "css"
    /\ IF inserted
         THEN /\ injCalls' = [injCalls EXCEPT ![c].pc = "scripts", ![c].file = 1]
              /\ UNCHANGED injectionLocks
         ELSE /\ injCalls' = [injCalls EXCEPT ![c].pc = "threw", ![c].holds = FALSE]
              /\ ReleaseLock(injCalls[c].tab)
    /\ UNCHANGED pointaDefined
    /\ UNCHANGED exceptInjVars

\* executeScript of one file settles; a failure is a warning.  After the last
\* file the call returns through finally.
scriptReturns(c, injected) ==
    /\ injCalls[c].pc = "scripts"
    /\ pointaDefined' = IF injected /\ injCalls[c].file = MaxScripts
                          THEN pointaDefined \cup {injCalls[c].tab}
                          ELSE pointaDefined
    /\ IF injCalls[c].file < MaxScripts
         THEN /\ injCalls' = [injCalls EXCEPT ![c].file = @ + 1]
              /\ UNCHANGED injectionLocks
         ELSE /\ injCalls' = [injCalls EXCEPT ![c].pc = "returned", ![c].holds = FALSE]
              /\ ReleaseLock(injCalls[c].tab)
    /\ UNCHANGED exceptInjVars

InjNext ==
    \/ \E c \in InjCallIds : \E tab \in Tabs : ensureContentScriptsInjected(c, tab)
    \/ \E c \in InjCallIds : \E accessible \in BOOLEAN : checkEvaluated(c, accessible)
    \/ \E c \in InjCallIds : checkReturns(c)
    \/ \E c \in InjCallIds : \E inserted \in BOOLEAN : insertCSSReturns(c, inserted)
    \/ \E c \in InjCallIds : \E injected \in BOOLEAN : scriptReturns(c, injected)

InitInj == DbgInit /\ CorrIdle /\ NetIdle /\ LogIdle /\ SessIdle /\ InjIdle

SpecInj == InitInj /\ [][InjNext]_vars

\* The calls that are in the injection sequence of a tab.
Injecting(tab) == {c \in InjCallIds : injCalls[c].tab = tab /\ injCalls[c].pc \in {"css", "scripts"}}

\* C34: for any tab at most one call of ensureContentScriptsInjected is in the
\* injection sequence at any time, and the lock of a tab is only removed by a
\* call that holds it.
C34_OneInjectionPerTab ==
    /\ [](\A tab \in Tabs : Cardinality(Injecting(tab)) <= 1)
    /\ [][\A tab \in injectionLocks \ injectionLocks' :
             \E c \in InjCallIds :
                /\ injCalls[c].tab = tab
                /\ injCalls[c].holds
                /\ injCalls[c].pc \notin InjSettled
                /\ injCalls'[c].pc \in InjSettled]_injVars

=============================================================================
